---- MODULE Spec2Model ----
(***************************************************************************)
(* Model of the ATS matching and quality-scoring engine of the resume      *)
(* tailoring backend: SemanticATSService (fileUpload.service.ts),          *)
(* QualityService (openai.service.ts) and the handlers of ResumeController *)
(* (resume.controller.ts): tailor and regenerate in full, the others as    *)
(* far as their checks, their database writes and their external calls go. *)
(*                                                                         *)
(* Texts and keywords are strings; the regular expressions of the source   *)
(* are evaluated on them character by character.  A JavaScript number is   *)
(* a record [k, v]: k = "num" with v the value in tenths (665 is 66.5), or *)
(* k = "NaN".  Quotients are exact before they round.                      *)
(***************************************************************************)
EXTENDS Integers, Sequences, FiniteSets, TLC

VARIABLES
    phase,      \* "idle" before the request, "done" once the handler has answered
    request,    \* the request the handler served, or the arguments of the call
    external,   \* what the external collaborators did during the request
    response,   \* the HTTP response of the handler, or what the call returned
    persisted,  \* the resume row of the database
    computed,   \* what calculateSimilarity and validateContent returned to the handler
    calls,      \* the calls of the services' private methods, each with what it returned
    database,   \* the tables resumes, resume_versions and tokens that the requests share
    handlers,   \* the requests in flight, each with the await it is suspended at
    answered,   \* the requests answered, in the order of their answers
    clock       \* the time in seconds

vars ==
    <<phase, request, external, response, persisted, computed, calls,
      database, handlers, answered, clock>>

\* the state of the requests that share the database
shared == <<database, handlers, answered, clock>>

\* the state of a request or call taken alone
single == <<phase, request, external, response, persisted, computed, calls>>

(***************************************************************************)
(* Strings                                                                 *)
(***************************************************************************)
UpperAlphabet == "ABCDEFGHIJKLMNOPQRSTUVWXYZ"

LowerAlphabet == "abcdefghijklmnopqrstuvwxyz"

Digits == "0123456789"

CharAt(s, i) == IF i >= 1 /\ i <= Len(s) THEN SubSeq(s, i, i) ELSE ""

CharsOf(s) == {CharAt(s, i) : i \in 1..Len(s)}

UpperSet == CharsOf(UpperAlphabet)

LowerSet == CharsOf(LowerAlphabet)

DigitSet == CharsOf(Digits)

LowerMap ==
    [c \in UpperSet |->
        CharAt(LowerAlphabet, CHOOSE i \in 1..Len(UpperAlphabet) : CharAt(UpperAlphabet, i) = c)]

IsUpper(c) == c \in UpperSet

IsLower(c) == c \in LowerSet

IsDigit(c) == c \in DigitSet

\* \w of a JavaScript regular expression
IsWordChar(c) == IsUpper(c) \/ IsLower(c) \/ IsDigit(c) \/ c = "_"

\* \s of a JavaScript regular expression (the whitespace the texts use)
IsSpace(c) == c \in {" ", "\n", "\t"}

\* String.prototype.toLowerCase, by halves
RECURSIVE ToLowerCase(_)
ToLowerCase(s) ==
    IF Len(s) = 0 THEN ""
    ELSE IF Len(s) = 1 THEN (IF IsUpper(s) THEN LowerMap[s] ELSE s)
    ELSE ToLowerCase(SubSeq(s, 1, Len(s) \div 2))
         \o ToLowerCase(SubSeq(s, Len(s) \div 2 + 1, Len(s)))

\* String.prototype.includes
Includes(s, sub) ==
    \E i \in 1..(Len(s) - Len(sub) + 1) : SubSeq(s, i, i + Len(sub) - 1) = sub

AllChars(s, from, to, kind) ==
    \A i \in from..to :
        LET c == CharAt(s, i) IN
        CASE kind = "space" -> IsSpace(c)
          [] kind = "upper" -> IsUpper(c)
          [] kind = "lower" -> IsLower(c)
          [] kind = "digit" -> IsDigit(c)
          [] kind = "word"  -> IsWordChar(c)
          [] kind = "text"  -> c # "" /\ ~IsSpace(c)

\* the elements of a set of numbers in increasing order
SortedSeq(S) ==
    [k \in 1..Cardinality(S) |-> CHOOSE x \in S : Cardinality({y \in S : y < x}) = k - 1]


\* where the run of characters of one kind that starts at from ends
RunEnd(s, kind, from) ==
    CHOOSE j \in from..Len(s) :
        AllChars(s, from, j, kind) /\ (j = Len(s) \/ ~AllChars(s, j + 1, j + 1, kind))

\* the maximal runs of characters of one kind in s, left to right, as <<from, to>>
RunSpans(s, kind) ==
    LET starts == SortedSeq({i \in 1..Len(s) :
                                AllChars(s, i, i, kind)
                                /\ ~(i > 1 /\ AllChars(s, i - 1, i - 1, kind))})
    IN  [k \in 1..Len(starts) |-> <<starts[k], RunEnd(s, kind, starts[k])>>]

\* String.prototype.trim
Trim(s) ==
    IF AllChars(s, 1, Len(s), "space") THEN ""
    ELSE LET a == CHOOSE i \in 1..Len(s) :
                    ~IsSpace(CharAt(s, i)) /\ AllChars(s, 1, i - 1, "space")
             b == CHOOSE i \in 1..Len(s) :
                    ~IsSpace(CharAt(s, i)) /\ AllChars(s, i + 1, Len(s), "space")
         IN  SubSeq(s, a, b)

\* the text of each span of s
SpanTexts(s, spans) == [k \in 1..Len(spans) |-> SubSeq(s, spans[k][1], spans[k][2])]

\* s.split(/\s+/): the pieces between runs of whitespace (empty pieces at the
\* ends included, as JavaScript returns them)
SplitWhitespace(s) ==
    (IF s = "" \/ IsSpace(CharAt(s, 1)) THEN <<"">> ELSE <<>>)
    \o SpanTexts(s, RunSpans(s, "text"))
    \o (IF s # "" /\ IsSpace(CharAt(s, Len(s))) THEN <<"">> ELSE <<>>)

SeqToSet(q) == {q[i] : i \in 1..Len(q)}


\* Array.prototype.filter with the kept indices given
FilterIdx(q, keep) ==
    LET order == SortedSeq(keep \cap (1..Len(q))) IN [k \in 1..Len(order) |-> q[order[k]]]

\* [...new Set(q)]: the first occurrence of each element
Unique(q) == FilterIdx(q, {i \in 1..Len(q) : \A j \in 1..(i - 1) : q[j] # q[i]})


\* Array.prototype.slice(0, n)
Slice(q, n) == SubSeq(q, 1, IF Len(q) < n THEN Len(q) ELSE n)

\* the arrays of qs one after the other
RECURSIVE Concat(_)
Concat(qs) == IF qs = <<>> THEN <<>> ELSE Head(qs) \o Concat(Tail(qs))

\* q.map(s => s.trim())
Trimmed(q) == [i \in 1..Len(q) |-> Trim(q[i])]

(***************************************************************************)
(* JavaScript numbers and values                                           *)
(***************************************************************************)
Tenths(t) == [k |-> "num", v |-> t]

\* the integer i
Num(i) == Tenths(10 * i)

NaN == [k |-> "NaN", v |-> 0]

IsNumber(x) == x.k = "num"

\* Math.min(100, Math.max(0, x)): NaN if x is NaN
Clamp(x) ==
    IF x.k = "NaN" THEN NaN ELSE IF x.v < 0 THEN Num(0) ELSE IF x.v > 1000 THEN Num(100) ELSE x

\* Math.round: to the nearest integer, halves up
MathRound(x) == IF x.k = "NaN" THEN NaN ELSE Tenths(10 * ((x.v + 5) \div 10))

\* Math.round(p / q) of the exact quotient, q > 0
RoundRatio(p, q) == (2 * p + q) \div (2 * q)

\* Math.round(Math.min(100, p / q)), q > 0
RoundMin100(p, q) == IF p >= 100 * q THEN 100 ELSE RoundRatio(p, q)

\* x || 0 on a number: 0 and NaN are falsy
OrZero(x) == IF x.k = "NaN" THEN Num(0) ELSE x

\* What a call that throws yields in place of its result
Failure == [failure |-> TRUE]

Thrown(x) == "failure" \in DOMAIN x

\* A value of a parsed JSON reply: t is its type, n its number (tenths), s its
\* string, a its array elements (each a value with an empty a)
JsUndefined == [t |-> "undefined", n |-> 0, s |-> "", a |-> <<>>]

JsNumber(tenths) == [t |-> "number", n |-> tenths, s |-> "", a |-> <<>>]

JsString(str) == [t |-> "string", n |-> 0, s |-> str, a |-> <<>>]

JsArray(items) == [t |-> "array", n |-> 0, s |-> "", a |-> items]

RECURSIVE DigitsValue(_)
DigitsValue(s) ==
    IF s = "" THEN 0
    ELSE 10 * DigitsValue(SubSeq(s, 1, Len(s) - 1))
         + (CHOOSE d \in 0..9 : CharAt(Digits, d + 1) = CharAt(s, Len(s)))


\* ToNumber of a string without the whitespace around it, as Math.max applies
\* it: a string of decimal digits is its value, the empty string 0; any string
\* holding another character than a digit, a sign, a point or an exponent is
\* NaN (the replies modelled hold no other numeric literal)
TrimmedToNumber(str) ==
    IF str = "" THEN Num(0)
    ELSE IF AllChars(str, 1, Len(str), "digit") THEN Num(DigitsValue(str))
    ELSE NaN

StringToNumber(s) == TrimmedToNumber(Trim(s))

\* Math.min(100, Math.max(0, x || 0)) on a field of the reply
ClampScore(x) ==
    LET truthy == CASE x.t = "number" -> x.n # 0
                    [] x.t = "string" -> x.s # ""
                    [] OTHER -> FALSE
        number == IF ~truthy THEN Num(0)
                  ELSE IF x.t = "number" THEN Tenths(x.n)
                  ELSE StringToNumber(x.s)
    IN  Clamp(number)

(***************************************************************************)
(* Regular-expression helpers                                              *)
(***************************************************************************)
\* \b at the gap before position i (1..Len(s)+1)
Boundary(s, i) ==
    LET before == i > 1 /\ IsWordChar(CharAt(s, i - 1))
        after  == i <= Len(s) /\ IsWordChar(CharAt(s, i))
    IN  before # after

\* the first position >= p that holds no whitespace
SkipSpaces(s, p) ==
    CHOOSE q \in p..(Len(s) + 1) :
        AllChars(s, p, q - 1, "space") /\ (q > Len(s) \/ ~IsSpace(CharAt(s, q)))

LiteralAt(s, p, lit) == p >= 1 /\ p + Len(lit) - 1 <= Len(s) /\ SubSeq(s, p, p + Len(lit) - 1) = lit

\* a token of [A-Z]{2,} or of [A-Z][a-z]+ (span = <<from, to>> of a word)
IsToken(text, span, kind) ==
    /\ span[2] > span[1]
    /\ IF kind = "acronym"
       THEN AllChars(text, span[1], span[2], "upper")
       ELSE IsUpper(CharAt(text, span[1])) /\ AllChars(text, span[1] + 1, span[2], "lower")

\* what may stand between two tokens of one match: "/" or \s+
Joins(text, a, b, kind) ==
    IF kind = "acronym"
    THEN SubSeq(text, a[2] + 1, b[1] - 1) = "/"
    ELSE b[1] > a[2] + 1 /\ AllChars(text, a[2] + 1, b[1] - 1, "space")


\* word k continues the match of word k - 1
Linked(text, spans, kind, k) ==
    /\ k > 1 /\ k <= Len(spans)
    /\ IsToken(text, spans[k - 1], kind)
    /\ IsToken(text, spans[k], kind)
    /\ Joins(text, spans[k - 1], spans[k], kind)

\* the matches that the words of first start, each up to its last linked word
RunsFrom(text, spans, kind, first) ==
    [i \in 1..Len(first) |->
        SubSeq(text, spans[first[i]][1],
               spans[CHOOSE m \in first[i]..Len(spans) :
                         /\ \A j \in (first[i] + 1)..m : Linked(text, spans, kind, j)
                         /\ ~Linked(text, spans, kind, m + 1)][2])]

RunsOver(text, spans, kind) ==
    RunsFrom(text, spans, kind,
             SortedSeq({k \in 1..Len(spans) :
                           IsToken(text, spans[k], kind) /\ ~Linked(text, spans, kind, k)}))

\* the matches of token (join token)*, left to right, over the words of text:
\* /\b[A-Z]{2,}(?:\/[A-Z]{2,})*\b/g for kind "acronym",
\* /\b[A-Z][a-z]+(?:\s+[A-Z][a-z]+)*\b/g for kind "capitalized"
Runs(text, kind) == RunsOver(text, RunSpans(text, "word"), kind)

(***************************************************************************)
(* SemanticATSService (fileUpload.service.ts)                              *)
(***************************************************************************)

\* /\d{1,2}\s*(days?|weeks?|months?|hours?|years?)\s*(ago|old)/i somewhere in lower
TimeReference(lower) ==
    \E i \in 1..Len(lower) :
        /\ IsDigit(CharAt(lower, i))
        /\ \E unit \in {"day", "week", "month", "hour", "year"} :
            LET p == SkipSpaces(lower, i + 1)
                q == p + Len(unit)
            IN  /\ LiteralAt(lower, p, unit)
                /\ \E word \in {"ago", "old"} :
                      LiteralAt(lower,
                                SkipSpaces(lower, IF CharAt(lower, q) = "s" THEN q + 1 ELSE q),
                                word)

\* noisePatterns.some(pattern => pattern.test(lower)): time references, job
\* board words, locations, dates, stop words, job filler words, numbers
NoisePattern(lower) ==
    \/ TimeReference(lower)
    \/ \E w \in {"posted", "apply", "save", "share", "glance", "at a glance", "apply by"} :
          Includes(lower, w)
    \/ \E w \in {"remote", "onsite", "hybrid", "us", "united states", "based in", "location",
                 "work from home"} :
          Includes(lower, w)
    \/ lower \in {"january", "february", "march", "april", "may", "june", "july", "august",
                  "september", "october", "november", "december", "monday", "tuesday",
                  "wednesday", "thursday", "friday", "saturday", "sunday"}
    \/ lower \in {"the", "a", "an", "and", "or", "but", "in", "on", "at", "to", "for", "of",
                  "with", "by", "from", "as", "is", "was", "are", "were", "been", "be",
                  "have", "has", "had", "do", "does", "did", "will", "would", "should",
                  "could", "may", "might", "must", "can", "this", "that", "these", "those",
                  "i", "you", "he", "she", "it", "we", "they", "what", "which", "who",
                  "whom", "whose", "where", "when", "why", "how", "all", "each", "every",
                  "both", "few", "more", "most", "other", "some", "such", "no", "nor",
                  "not", "only", "own", "same", "so", "than", "too", "very", "just", "now"}
    \/ lower \in {"looking", "seeking", "candidate", "position", "role", "opportunity",
                  "company", "team", "work", "environment", "culture", "benefits",
                  "compensation", "salary", "hour", "week", "year", "experience",
                  "required", "preferred", "qualifications", "responsibilities", "duties",
                  "tasks"}
    \/ (lower # "" /\ AllChars(lower, 1, Len(lower), "digit"))

ATS_ShortWord == 3

\* what isNoise returns on the trimmed lower-cased word: a noise pattern
\* matches it, or it is shorter than 3
MatchesNoise(lower) == NoisePattern(lower) \/ Len(lower) < ATS_ShortWord

\* isNoise of SemanticATSService.extractHighImpactKeywords
isNoise(word) == MatchesNoise(Trim(ToLowerCase(word)))

\* the acronyms the forEach adds to the keyword set, clean being the trimmed
\* acronyms
KeptAcronyms(clean) ==
    FilterIdx(clean, {i \in 1..Len(clean) : Len(clean[i]) >= 2 /\ ~isNoise(clean[i])})

\* the capitalized words the forEach adds to the keyword set, clean being the
\* trimmed words
KeptCapitalized(clean) ==
    FilterIdx(clean, {i \in 1..Len(clean) :
                        /\ Len(clean[i]) >= 3
                        /\ ~isNoise(clean[i])
                        /\ ~AllChars(clean[i], 1, Len(clean[i]), "digit")})

ATS_KeywordLimit == 50

ATS_extractHighImpactKeywords(text) ==
    Slice(Unique(KeptAcronyms(Trimmed(Runs(text, "acronym")))
                 \o KeptCapitalized(Trimmed(Runs(text, "capitalized")))),
          ATS_KeywordLimit)


\* parts.filter(w => w.length >= n), as a set
WordsOfLength(parts, n) == {parts[i] : i \in {j \in 1..Len(parts) : Len(parts[j]) >= n}}

\* isSemanticMatch by containment of the second keyword in the first alone
ATS_MatchContained(k1, k2) ==
    \/ k1 = k2
    \/ Includes(k1, k2) /\ Len(k1) >= 4 /\ Len(k2) >= 4
    \/ WordsOfLength(SplitWhitespace(k1), 4) \cap WordsOfLength(SplitWhitespace(k2), 4) # {}

\* isSemanticMatch on the lower-cased keywords
ATS_MatchLower(k1, k2) ==
    \/ k1 = k2
    \/ (Includes(k1, k2) \/ Includes(k2, k1)) /\ Len(k1) >= 4 /\ Len(k2) >= 4
    \/ WordsOfLength(SplitWhitespace(k1), 4) \cap WordsOfLength(SplitWhitespace(k2), 4) # {}

ATS_isSemanticMatch(keyword1, keyword2) ==
    ATS_MatchLower(ToLowerCase(keyword1), ToLowerCase(keyword2))

\* keywords.filter(kw => others.some(o => same ignoring case || ATS_isSemanticMatch(o, kw)))
ATS_Matched(highImpactKeywords, resumeKeywords) ==
    FilterIdx(highImpactKeywords,
        {i \in 1..Len(highImpactKeywords) :
            \E j \in 1..Len(resumeKeywords) :
                \/ ToLowerCase(resumeKeywords[j]) = ToLowerCase(highImpactKeywords[i])
                \/ ATS_isSemanticMatch(resumeKeywords[j], highImpactKeywords[i])})

\* keywords.filter(kw => !matched.some(m => m.toLowerCase() === kw.toLowerCase()))
NotAmong(keywords, matched) ==
    FilterIdx(keywords,
        {i \in 1..Len(keywords) :
            ~\E j \in 1..Len(matched) : ToLowerCase(matched[j]) = ToLowerCase(keywords[i])})

ATS_MissingLimit == 10

ATS_RecommendationLimit == 5


\* Math.round(Math.min(100, keywordCoverage * w / 100)), keywordCoverage = 100 m / n
Scaled(w, m, n) == IF n > 0 THEN Num(RoundMin100(w * m, n)) ELSE Num(0)

\* the result of fallbackAnalysis: matched of the job's keywords, the rest
\* missing, and the coverage scaled by 1.05, 0.9, 0.95, 0.85
FallbackResult(highImpactKeywords, matched) ==
    [similarityScore |-> Scaled(105, Len(matched), Len(highImpactKeywords)),
     matchedKeywords |-> matched,
     missingKeywords |-> Slice(NotAmong(highImpactKeywords, matched), ATS_MissingLimit),
     keywordCoverage |-> Scaled(100, Len(matched), Len(highImpactKeywords)),
     semanticMatches |-> [skills |-> Scaled(90, Len(matched), Len(highImpactKeywords)),
                          experience |-> Scaled(95, Len(matched), Len(highImpactKeywords)),
                          education |-> Num(80),
                          tools |-> Scaled(85, Len(matched), Len(highImpactKeywords))],
     recommendations |->
         [i \in 1..Len(Slice(NotAmong(highImpactKeywords, matched), ATS_RecommendationLimit)) |->
             "Consider adding \"" \o NotAmong(highImpactKeywords, matched)[i]
             \o "\" if relevant to your experience"],
     highImpactKeywords |->
         [matched |-> matched,
          missing |-> Slice(NotAmong(highImpactKeywords, matched), ATS_MissingLimit)]]

FallbackKeywords(highImpactKeywords, resumeKeywords) ==
    FallbackResult(highImpactKeywords, ATS_Matched(highImpactKeywords, resumeKeywords))

fallbackAnalysis(resumeContent, jobDescription, generateFreely) ==
    FallbackKeywords(ATS_extractHighImpactKeywords(jobDescription),
                     ATS_extractHighImpactKeywords(resumeContent))

\* a.localeCompare(b) < 0 for the characters of the texts: whitespace, then
\* punctuation, then digits, then letters; letters compare ignoring case and,
\* when all else is equal, lower case first
CharRank(c) ==
    IF IsSpace(c) THEN 0
    ELSE IF IsDigit(c) THEN 2 + (CHOOSE d \in 0..9 : CharAt(Digits, d + 1) = c)
    ELSE IF IsLower(c) THEN 12 + (CHOOSE i \in 1..Len(LowerAlphabet) : CharAt(LowerAlphabet, i) = c)
    ELSE IF IsUpper(c) THEN 12 + (CHOOSE i \in 1..Len(UpperAlphabet) : CharAt(UpperAlphabet, i) = c)
    ELSE 1


\* -1, 0, 1: the order of x and y by the rank of their characters
RECURSIVE Primary(_, _)
Primary(x, y) ==
    IF x = "" /\ y = "" THEN 0
    ELSE IF x = "" THEN -1
    ELSE IF y = "" THEN 1
    ELSE IF CharRank(Head(x)) < CharRank(Head(y)) THEN -1
    ELSE IF CharRank(Head(x)) > CharRank(Head(y)) THEN 1
    ELSE Primary(Tail(x), Tail(y))

\* a before b: by the primary order, else lower case first where they differ
Ordered(a, b, primary) ==
    IF primary # 0 THEN primary < 0
    ELSE IsLower(CharAt(a, CHOOSE i \in 1..Len(a) :
                               /\ CharAt(a, i) # CharAt(b, i)
                               /\ SubSeq(a, 1, i - 1) = SubSeq(b, 1, i - 1)))

LocaleLess(a, b) ==
    IF a = b THEN FALSE ELSE Ordered(a, b, Primary(ToLowerCase(a), ToLowerCase(b)))

RECURSIVE InsertSorted(_, _)
InsertSorted(sorted, x) ==
    IF sorted = <<>> THEN <<x>>
    ELSE IF LocaleLess(x, Head(sorted)) THEN <<x>> \o sorted
    ELSE <<Head(sorted)>> \o InsertSorted(Tail(sorted), x)

RECURSIVE SortLocale(_)
SortLocale(q) == IF q = <<>> THEN <<>> ELSE InsertSorted(SortLocale(Tail(q)), Head(q))

\* normalizeKeywordArray of normalizeATSResult: the trimmed non-empty strings
\* of an array, without duplicates, sorted
RECURSIVE TrimmedStrings(_)
TrimmedStrings(items) ==
    IF items = <<>> THEN <<>>
    ELSE (IF Head(items).t = "string" /\ Len(Trim(Head(items).s)) > 0
          THEN <<Trim(Head(items).s)>> ELSE <<>>)
         \o TrimmedStrings(Tail(items))

normalizeKeywordArray(arr) ==
    IF arr.t # "array" THEN <<>> ELSE SortLocale(Unique(TrimmedStrings(arr.a)))

\* the keywords as the reply lists them, none checked against the resume
AcceptedAsListed(keywords, resumeLower) == keywords

\* keywords.filter(kw => resumeLower.includes(kw.toLowerCase()))
PresentIn(keywords, resumeLower) ==
    FilterIdx(keywords,
        {i \in 1..Len(keywords) : Includes(resumeLower, ToLowerCase(keywords[i]))})

\* analysis.semanticMatches?.f and analysis.highImpactKeywords?.f
Optional(object, f) == IF object.present THEN object[f] ELSE JsUndefined

normalizeATSResult(analysis, resumeContent) ==
    LET resumeLower == ToLowerCase(resumeContent)
        strings(v) == IF v.t = "array" THEN TrimmedStrings(v.a) ELSE <<>>
    IN  [similarityScore |-> ClampScore(analysis.similarityScore),
         matchedKeywords |->
             PresentIn(normalizeKeywordArray(analysis.matchedKeywords), resumeLower),
         missingKeywords |-> normalizeKeywordArray(analysis.missingKeywords),
         keywordCoverage |-> ClampScore(analysis.keywordCoverage),
         semanticMatches |->
             [skills |-> ClampScore(Optional(analysis.semanticMatches, "skills")),
              experience |-> ClampScore(Optional(analysis.semanticMatches, "experience")),
              education |-> ClampScore(Optional(analysis.semanticMatches, "education")),
              tools |-> ClampScore(Optional(analysis.semanticMatches, "tools"))],
         recommendations |->
             IF analysis.recommendations.t = "array" THEN strings(analysis.recommendations)
             ELSE <<>>,
         highImpactKeywords |->
             [matched |->
                  PresentIn(normalizeKeywordArray(Optional(analysis.highImpactKeywords, "matched")),
                            resumeLower),
              missing |->
                  normalizeKeywordArray(Optional(analysis.highImpactKeywords, "missing"))]]

\* The reply of chat.completions.create as analyzeATSMatch sees it:
\*   kind = "rejected"     the call throws (network error, timeout, HTTP error)
\*   kind = "no_content"   no message content: '{}' is parsed
\*   kind = "invalid_json" JSON.parse throws
\*   kind = "null"         the content parses to null: normalizeATSResult throws
\*   kind = "object"       the content parses to the object `analysis`
EmptyAnalysis ==
    [similarityScore |-> JsUndefined, matchedKeywords |-> JsUndefined,
     missingKeywords |-> JsUndefined, keywordCoverage |-> JsUndefined,
     semanticMatches |-> [present |-> FALSE, skills |-> JsUndefined,
                          experience |-> JsUndefined, education |-> JsUndefined,
                          tools |-> JsUndefined],
     recommendations |-> JsUndefined,
     highImpactKeywords |-> [present |-> FALSE, matched |-> JsUndefined,
                             missing |-> JsUndefined]]

analyzeATSMatch(resumeContent, jobDescription, generateFreely, reply) ==
    IF reply.kind \in {"rejected", "invalid_json", "null"}
    THEN fallbackAnalysis(resumeContent, jobDescription, generateFreely)
    ELSE normalizeATSResult(IF reply.kind = "no_content" THEN EmptyAnalysis ELSE reply.analysis,
                            resumeContent)

(***************************************************************************)
(* QualityService (openai.service.ts): keyword extraction and matching     *)
(***************************************************************************)
noiseWords ==
    {"posted", "apply", "save", "share", "days", "ago", "weeks", "months",
     "mount", "laurel", "onsite", "remote", "hybrid", "full-time", "part-time",
     "glance", "united", "states", "work", "home",
     "january", "february", "march", "april", "may", "june", "july",
     "august", "september", "october", "november", "december",
     "the", "a", "an", "and", "or", "but", "in", "on", "at", "to", "for", "of",
     "with", "by", "from", "as", "is", "was", "are", "were", "been", "be",
     "have", "has", "had", "do", "does", "did", "will", "would", "should",
     "could", "might", "must", "can", "this", "that", "these", "those",
     "i", "you", "he", "she", "it", "we", "they", "what", "which", "who",
     "whom", "whose", "where", "when", "why", "how", "all", "each", "every",
     "both", "few", "more", "most", "other", "some", "such", "no", "nor", "not",
     "only", "own", "same", "so", "than", "too", "very", "just", "now",
     "looking", "seeking", "candidate", "position", "role", "opportunity",
     "company", "team", "environment", "culture", "benefits",
     "compensation", "salary", "hour", "week", "year", "experience", "required",
     "preferred", "qualifications", "responsibilities", "duties", "tasks"}

\* The alternatives of each technical pattern; a two-part alternative is
\* part \s* part (power\s*bi)
technicalPatterns ==
    << << <<"python">>, <<"java">>, <<"javascript">>, <<"typescript">>, <<"react">>,
          <<"vue">>, <<"angular">>, <<"node">>, <<"django">>, <<"flask">>,
          <<"laravel">>, <<"spring">>, <<"express">>, <<"next">>, <<"nuxt">> >>,
       << <<"aws">>, <<"azure">>, <<"gcp">>, <<"docker">>, <<"kubernetes">>,
          <<"terraform">>, <<"jenkins">>, <<"gitlab">>, <<"github">>, <<"ci/cd">> >>,
       << <<"mysql">>, <<"postgresql">>, <<"mongodb">>, <<"redis">>,
          <<"elasticsearch">>, <<"dynamodb">> >>,
       << <<"agile">>, <<"scrum">>, <<"kanban">>, <<"devops">>, <<"tdd">>, <<"bdd">> >>,
       << <<"git">>, <<"jira">>, <<"confluence">>, <<"slack">>, <<"figma">>,
          <<"sketch">>, <<"tableau">>, <<"power", "bi">> >> >>


\* the last position of the match of alt at p whose last part starts at q, or 0
AltFrom(lower, p, alt, q) ==
    IF /\ Boundary(lower, p)
       /\ LiteralAt(lower, p, alt[1])
       /\ LiteralAt(lower, q, alt[Len(alt)])
       /\ Boundary(lower, q + Len(alt[Len(alt)]))
    THEN q + Len(alt[Len(alt)]) - 1 ELSE 0

\* the last position of a match of \b alt \b that starts at p in lower, or 0
AltEnd(lower, p, alt) ==
    AltFrom(lower, p, alt, IF Len(alt) = 1 THEN p ELSE SkipSpaces(lower, p + Len(alt[1])))

\* the last position of the match of the pattern that starts at p, by its
\* first alternative that matches there, or 0
MatchEnd(lower, p, pattern) ==
    LET hits == {i \in 1..Len(pattern) : AltEnd(lower, p, pattern[i]) > 0}
    IN  IF hits = {} THEN 0
        ELSE AltEnd(lower, p, pattern[CHOOSE i \in hits : \A j \in hits : i <= j])

MatchesFrom(lower, pattern, starts) ==
    [k \in 1..Len(starts) |-> SubSeq(lower, starts[k], MatchEnd(lower, starts[k], pattern))]

\* text.match(pattern), pattern = /\b(alt|alt|...)\b/gi, over the lower-cased
\* text: a match starts where a word starts
PatternMatches(lower, pattern) ==
    MatchesFrom(lower, pattern, SortedSeq({p \in 1..Len(lower) : MatchEnd(lower, p, pattern) > 0}))

\* the matches the forEach keeps: at least 3 long and no noise word
CleanTechnical(clean) ==
    FilterIdx(clean, {i \in 1..Len(clean) : Len(clean[i]) >= 3 /\ clean[i] \notin noiseWords})

\* the technical terms the forEach adds, one pattern after the other:
\* lower-cased and trimmed
TechnicalKeywords(text) ==
    CleanTechnical(Trimmed(Concat([k \in 1..Len(technicalPatterns) |->
                                      PatternMatches(ToLowerCase(text), technicalPatterns[k])])))

\* words.filter(w => list.includes(w)).length
CountIn(words, list) == Cardinality({i \in 1..Len(words) : words[i] \in list})


\* the checks of the forEach body on the clean word and its words
CapitalizedChecks(clean, words) ==
    LET fillerStarters == {"the", "this", "that", "what", "which", "who", "you",
                           "your", "our", "we", "they"}
        genericPhrases == {"role", "position", "job", "work", "team", "company",
                           "app", "application"}
        nonTechnicalWords == {"app", "application", "role", "job", "position", "work",
                              "team", "company", "this", "that", "what", "you", "your"}
        fillerCount == CountIn(words, {"the", "this", "that", "what", "which", "who", "you",
                                       "your", "role", "app", "job", "position"})
    IN  /\ clean \notin noiseWords
        /\ ~(clean # "" /\ AllChars(clean, 1, Len(clean), "digit"))
        /\ Len(clean) >= 3
        /\ ~(/\ Len(words) > 1
             /\ words[1] \in fillerStarters
             /\ (words[2] \in genericPhrases \/ Len(words) <= 3))
        /\ ~(Len(words) = 1 /\ clean \in nonTechnicalWords)
        /\ ~(\E w \in {"inc", "llc", "corp", "company", "health inc", "healthcare inc"} :
                Includes(clean, w))
        /\ ~(/\ clean \in {"healthcare", "health", "care", "business", "industry",
                           "sector", "field"}
             /\ ~Includes(clean, "tech")
             /\ ~Includes(clean, "software"))
        /\ ~(/\ Len(words) >= 2
             /\ \/ (fillerCount > 0 /\ 2 * fillerCount > Len(words))
                \/ (Len(words) <= 3 /\ fillerCount >= 2))

\* the clean words that pass the checks of the forEach body
KeptClean(cleaned) ==
    FilterIdx(cleaned, {i \in 1..Len(cleaned) :
                          CapitalizedChecks(cleaned[i], SplitWhitespace(cleaned[i]))})

\* clean = word.toLowerCase().trim()
LowerTrimmed(found) == [i \in 1..Len(found) |-> Trim(ToLowerCase(found[i]))]

\* the capitalized words the forEach adds, lower-cased
CapitalizedKeywords(text) == KeptClean(LowerTrimmed(Runs(text, "capitalized")))

\* /\b(w1|w2|...)\b/ matches s, whose words are words
HasWord(words, set) == \E i \in 1..Len(words) : words[i] \in set

\* /\ba\s+b\b/ matches s, whose word spans are spans
HasWordPair(s, spans, a, b) ==
    \E k \in 1..(Len(spans) - 1) :
        /\ SubSeq(s, spans[k][1], spans[k][2]) = a
        /\ SubSeq(s, spans[k + 1][1], spans[k + 1][2]) = b
        /\ Joins(s, spans[k], spans[k + 1], "capitalized")

\* /\ba\s+\d+\b/ matches s, whose word spans are spans
HasWordThenDigits(s, spans, a) ==
    \E k \in 1..(Len(spans) - 1) :
        /\ SubSeq(s, spans[k][1], spans[k][2]) = a
        /\ AllChars(s, spans[k + 1][1], spans[k + 1][2], "digit")
        /\ Joins(s, spans[k], spans[k + 1], "capitalized")

BoilerplateWords ==
    {"posted", "apply", "save", "share", "intern", "internship", "work", "home",
     "united", "states"}

GenericWords == {"intern", "posted", "save", "share", "apply", "work", "home", "united", "states"}

FillerWords ==
    {"the", "this", "that", "what", "which", "who", "you", "your", "role", "app",
     "job", "position", "application"}


\* the checks of the filter on the lower-cased keyword: words is its split at
\* whitespace, spans its words as the regular expressions see them
KeywordChecks(lower, words, spans) ==
    LET fillerCount == CountIn(words, FillerWords)
        knownTechnicalPhrases ==
            {"machine learning", "deep learning", "natural language",
             "artificial intelligence", "cloud computing", "data science",
             "web development", "mobile development", "software engineering",
             "system design", "api design", "user experience"}
    IN  \* a company name: ' health', ' healthcare', /^[a-z]+\s+health/
        /\ ~(\/ Includes(lower, " health")
             \/ Includes(lower, " healthcare")
             \/ \E i \in 1..Len(lower) :
                    /\ AllChars(lower, 1, i, "lower")
                    /\ IsSpace(CharAt(lower, i + 1))
                    /\ LiteralAt(lower, SkipSpaces(lower, i + 1), "health"))
        /\ ~(/\ lower \in {"slack", "email", "phone", "zoom", "teams"}
             /\ ~Includes(lower, "api")
             /\ ~Includes(lower, "sdk"))
        /\ ~(/\ Len(words) = 1
             /\ lower \in {"app", "application", "role", "job", "position", "work",
                           "team", "company", "this", "that", "what", "you", "your",
                           "the", "a", "an", "open", "close"})
        /\ ~(Len(words) > 1 /\ fillerCount > 0 /\ 2 * fillerCount > Len(words))
        /\ ~(Len(words) >= 2 /\ Len(words) <= 4 /\ fillerCount >= 2)
        /\ ~(/\ Len(words) >= 2
             /\ (words[1] \in FillerWords \/ words[Len(words)] \in FillerWords)
             /\ ~(\E phrase \in knownTechnicalPhrases : Includes(lower, phrase))
             /\ fillerCount >= 2)
        /\ ~(/\ \E word \in BoilerplateWords : Includes(lower, word)
             /\ HasWord(SpanTexts(lower, spans), BoilerplateWords)
             /\ ~HasWord(SpanTexts(lower, spans),
                         {"python", "java", "react", "aws", "docker", "kubernetes",
                          "terraform", "api", "sdk", "framework", "library"}))
        /\ ~(\/ HasWordPair(lower, spans, "united", "states")
             \/ HasWordPair(lower, spans, "mount", "laurel")
             \/ HasWord(SpanTexts(lower, spans), {"remote", "onsite", "hybrid"}))
        /\ ~(\/ HasWordPair(lower, spans, "save", "share")
             \/ HasWordPair(lower, spans, "apply", "save")
             \/ HasWordPair(lower, spans, "apply", "at")
             \/ HasWordThenDigits(lower, spans, "posted")
             \/ HasWordPair(lower, spans, "days", "ago"))
        \* /^(intern|...)(\s+(intern|...))*$/
        /\ ~(\A i \in 1..Len(words) : words[i] \in GenericWords)

\* the filter that ends QualityService.extractHighImpactKeywords
KeepKeyword(kw) ==
    KeywordChecks(ToLowerCase(kw), SplitWhitespace(ToLowerCase(kw)),
                  RunSpans(ToLowerCase(kw), "word"))

KeptKeywords(keywords) == FilterIdx(keywords, {i \in 1..Len(keywords) : KeepKeyword(keywords[i])})

QS_extractHighImpactKeywords(text) ==
    KeptKeywords(Unique(TechnicalKeywords(text) \o CapitalizedKeywords(text)))

semanticPairs ==
    {<<"hardware", "electronic">>, <<"software", "application">>,
     <<"cloud", "aws">>, <<"cloud", "azure">>, <<"cloud", "gcp">>,
     <<"database", "mysql">>, <<"database", "postgresql">>, <<"database", "mongodb">>,
     <<"team", "leadership">>, <<"manage", "lead">>, <<"develop", "build">>,
     <<"create", "build">>, <<"programming", "coding">>, <<"programming", "development">>}


\* isSemanticMatch on the lower-cased keywords
QS_MatchLower(k1, k2) ==
    \/ k1 = k2
    \/ \E pair \in semanticPairs :
          \/ Includes(k1, pair[1]) /\ Includes(k2, pair[2])
          \/ Includes(k1, pair[2]) /\ Includes(k2, pair[1])

QS_isSemanticMatch(keyword1, keyword2) ==
    QS_MatchLower(ToLowerCase(keyword1), ToLowerCase(keyword2))

\* the job keywords that a resume keyword matches by a semantic pair alone
QS_MatchedByPair(jobKeywords, others) ==
    FilterIdx(jobKeywords,
        {i \in 1..Len(jobKeywords) :
            \E j \in 1..Len(others) :
                \E pair \in semanticPairs :
                    /\ Includes(ToLowerCase(others[j]), pair[1])
                    /\ Includes(ToLowerCase(jobKeywords[i]), pair[2])})

\* jobKeywords.filter(kw => others.some(o => same ignoring case || QS_isSemanticMatch(o, kw)))
QS_Matched(jobKeywords, others) ==
    FilterIdx(jobKeywords,
        {i \in 1..Len(jobKeywords) :
            \E j \in 1..Len(others) :
                \/ ToLowerCase(others[j]) = ToLowerCase(jobKeywords[i])
                \/ QS_isSemanticMatch(others[j], jobKeywords[i])})

(***************************************************************************)
(* QualityService: section matches and the deterministic scorer            *)
(***************************************************************************)
skillIndicators ==
    <<"skill", "proficient", "experience with", "knowledge of", "familiar with",
      "expertise in">>

\* the characters of s at the kept positions of a..b, by halves
RECURSIVE Pick(_, _, _, _)
Pick(s, kept, a, b) ==
    IF a > b THEN ""
    ELSE IF a = b THEN (IF a \in kept THEN CharAt(s, a) ELSE "")
    ELSE Pick(s, kept, a, (a + b) \div 2) \o Pick(s, kept, (a + b) \div 2 + 1, b)

\* s.replace(new RegExp(indicator, 'gi'), '') on a lower-case s (no indicator
\* overlaps itself)
RemoveAll(s, indicator) ==
    Pick(s, {i \in 1..Len(s) :
                ~\E p \in 1..i : LiteralAt(s, p, indicator) /\ i < p + Len(indicator)},
         1, Len(s))

IsDelimiter(c) == c \in {".", ",", ";"}

\* the last position before the first of . , ; after p
SegmentEnd(text, p) ==
    CHOOSE g \in p..Len(text) :
        /\ \A i \in p..g : ~IsDelimiter(CharAt(text, i))
        /\ (g = Len(text) \/ IsDelimiter(CharAt(text, g + 1)))


\* whether indicator[\s:]+([^.,;]+) matches at p: f is the first position
\* after the indicator that holds neither whitespace nor ":"
IndicatorAt(text, p, indicator) ==
    LET e == p + Len(indicator)
        f == CHOOSE q \in e..(Len(text) + 1) :
                /\ \A i \in e..(q - 1) : IsSpace(CharAt(text, i)) \/ CharAt(text, i) = ":"
                /\ ~(IsSpace(CharAt(text, q)) \/ CharAt(text, q) = ":")
    IN  /\ LiteralAt(text, p, indicator)
        /\ f > e
        /\ \/ f <= Len(text) /\ ~IsDelimiter(CharAt(text, f))
           \/ f - e >= 2

\* where text.match(regex) matches for one indicator: every match runs to the
\* next of . , ; so a later candidate inside a match is passed over
IndicatorStarts(text, indicator) ==
    LET candidates == {p \in 1..Len(text) : IndicatorAt(text, p, indicator)}
    IN  SortedSeq({p \in candidates : \A q \in candidates : q < p => SegmentEnd(text, q) < p})

\* the skill of each match (a match holds none of , ; so the split gives one
\* piece)
SkillsOf(text, starts, indicator) ==
    [k \in 1..Len(starts) |->
        ToLowerCase(Trim(RemoveAll(SubSeq(text, starts[k], SegmentEnd(text, starts[k])),
                                   indicator)))]

\* skill.length > 2
LongSkills(skills) == FilterIdx(skills, {k \in 1..Len(skills) : Len(skills[k]) > 2})

\* the skills one indicator contributes
IndicatorSkills(text, indicator) ==
    LongSkills(SkillsOf(text, IndicatorStarts(text, indicator), indicator))

extractSkillKeywords(text) ==
    Unique(Concat([k \in 1..Len(skillIndicators) |-> IndicatorSkills(text, skillIndicators[k])]))

\* terms.some(term => lower.includes(term))
HasTerm(lower, terms) == \E term \in terms : Includes(lower, term)

\* Math.round(skillsMatch): the share of the job's skills among the resume's
SkillsMatch(skillKeywords, resumeSkills) ==
    IF Len(skillKeywords) > 0
    THEN RoundRatio(100 * Cardinality({i \in 1..Len(skillKeywords) :
                                         skillKeywords[i] \in SeqToSet(resumeSkills)}),
                    Len(skillKeywords))
    ELSE 100

SectionMatchesLower(resumeLower, jobLower) ==
    LET experienceTerms == {"experience", "worked", "developed", "managed", "led"}
        educationTerms == {"degree", "education", "bachelor", "master", "phd"}
    IN  [skills |-> SkillsMatch(extractSkillKeywords(jobLower),
                                extractSkillKeywords(resumeLower)),
         experience |-> IF HasTerm(jobLower, experienceTerms)
                           /\ HasTerm(resumeLower, experienceTerms)
                        THEN 100 ELSE 50,
         education |-> IF HasTerm(jobLower, educationTerms)
                          /\ HasTerm(resumeLower, educationTerms)
                       THEN 100 ELSE 50]

calculateSectionMatches(resumeContent, jobDescription) ==
    SectionMatchesLower(ToLowerCase(resumeContent), ToLowerCase(jobDescription))

MatchedLimit == 30

MissingLimit == 20

\* the coverage of the lists as they are returned, cut to their limits
CoverageOfReturned(matchedKeywords, jobKeywords) ==
    LET matched == Len(Slice(matchedKeywords, MatchedLimit))
        missing == Len(Slice(NotAmong(jobKeywords, matchedKeywords), MissingLimit))
    IN  IF matched + missing > 0 THEN RoundRatio(100 * matched, matched + missing) ELSE 0

\* Math.round(keywordCoverage): 100 * matched / job, or 0 without job keywords
RoundedCoverage(matchedKeywords, jobKeywords) ==
    IF Len(jobKeywords) > 0
    THEN RoundRatio(100 * Len(matchedKeywords), Len(jobKeywords)) ELSE 0


\* similarityScore = keywordCoverage * 0.7 + sections / 100, rounded and at
\* most 100, of the exact quotient
FallbackMetrics(jobKeywords, matchedKeywords, sectionMatches) ==
    LET sections == 15 * sectionMatches.skills + 10 * sectionMatches.experience
                    + 5 * sectionMatches.education
    IN  [similarityScore |->
             IF Len(jobKeywords) > 0
             THEN Num(RoundMin100(7000 * Len(matchedKeywords) + sections * Len(jobKeywords),
                                  100 * Len(jobKeywords)))
             ELSE Num(RoundMin100(sections, 100)),
         matchedKeywords |-> Slice(matchedKeywords, MatchedLimit),
         missingKeywords |-> Slice(NotAmong(jobKeywords, matchedKeywords), MissingLimit),
         keywordCoverage |-> Num(RoundedCoverage(matchedKeywords, jobKeywords)),
         sectionMatches |-> [skills |-> Num(sectionMatches.skills),
                             experience |-> Num(sectionMatches.experience),
                             education |-> Num(sectionMatches.education)]]

FallbackOn(resumeKeywords, jobKeywords, sectionMatches) ==
    FallbackMetrics(jobKeywords, QS_Matched(jobKeywords, resumeKeywords), sectionMatches)

calculateSimilarityFallback(resumeContent, jobDescription) ==
    FallbackOn(QS_extractHighImpactKeywords(resumeContent),
               QS_extractHighImpactKeywords(jobDescription),
               calculateSectionMatches(resumeContent, jobDescription))


\* the fields of the semantic result that a SimilarityMetrics takes
SemanticMetrics(semanticResult) ==
    [similarityScore |-> semanticResult.similarityScore,
     matchedKeywords |-> semanticResult.highImpactKeywords.matched,
     missingKeywords |-> semanticResult.highImpactKeywords.missing,
     keywordCoverage |-> semanticResult.keywordCoverage,
     sectionMatches |-> [skills |-> semanticResult.semanticMatches.skills,
                         experience |-> semanticResult.semanticMatches.experience,
                         education |-> semanticResult.semanticMatches.education]]

\* the metrics of the semantic attempt, or those of the fallback when there
\* was no attempt or it threw
ReturnOrFallBack(attempt, resumeContent, jobDescription) ==
    IF Thrown(attempt) THEN calculateSimilarityFallback(resumeContent, jobDescription)
    ELSE SemanticMetrics(attempt)

\* the semantic service used without the check that it was constructed
calculateSimilarityUnguarded(resumeContent, jobDescription, generateFreely, ats) ==
    IF ats.constructed
    THEN SemanticMetrics(analyzeATSMatch(resumeContent, jobDescription,
                                         generateFreely, ats.reply))
    ELSE Failure


\* semanticATSService is null when its constructor threw: there is no attempt
calculateSimilarity(resumeContent, jobDescription, generateFreely, ats) ==
    ReturnOrFallBack(IF ats.constructed
                     THEN analyzeATSMatch(resumeContent, jobDescription, generateFreely,
                                          ats.reply)
                     ELSE Failure,
                     resumeContent, jobDescription)

(***************************************************************************)
(* QualityService.validateContent: the scores of a QualityScore            *)
(***************************************************************************)
requiredSections == {"experience", "skills", "education"}

ShortContent == 500

\* the score that takes nothing off a short text
CompletenessBySections(tailoredContent) ==
    LET tailoredLower == ToLowerCase(tailoredContent)
    IN  100 - 20 * Cardinality({section \in requiredSections : ~Includes(tailoredLower, section)})

checkCompleteness(tailoredContent) ==
    LET tailoredLower == ToLowerCase(tailoredContent)
        absent == Cardinality({section \in requiredSections : ~Includes(tailoredLower, section)})
        score == 100 - 20 * absent - (IF Len(tailoredContent) < ShortContent THEN 10 ELSE 0)
    IN  IF score < 0 THEN 0 ELSE score

MinWordLength == 4

FlexibleTruthfulness == 85


\* Math.min(100, Math.round(overlap / tailoredWords.size * 100)), 0 without words
WordOverlap(originalWords, tailoredWords) ==
    IF tailoredWords = {} THEN 0
    ELSE RoundMin100(100 * Cardinality(tailoredWords \cap originalWords),
                     Cardinality(tailoredWords))

calculateTruthfulness(originalResume, tailoredContent, generateFreely) ==
    IF generateFreely THEN FlexibleTruthfulness
    ELSE WordOverlap(WordsOfLength(SplitWhitespace(ToLowerCase(originalResume.raw_text)),
                                   MinWordLength),
                     WordsOfLength(SplitWhitespace(ToLowerCase(tailoredContent)),
                                   MinWordLength))

calculateKeywordMatch(jobKeywords, tailoredKeywords) ==
    IF Len(jobKeywords) = 0 THEN 100
    ELSE RoundRatio(100 * Len(QS_Matched(jobKeywords, tailoredKeywords)), Len(jobKeywords))

\* Math.round(truthfulness * 0.4 + completeness * 0.3 + keywordMatch * 0.3) on
\* whole numbers (completeness is a multiple of 10, where the double sum
\* rounds as the exact one)
WeightedOverall(truthfulness, completeness, keywordMatch) ==
    RoundRatio(4 * truthfulness + 3 * completeness + 3 * keywordMatch, 10)

(***************************************************************************)
(* QualityService.validateContent: its warnings and flags                  *)
(***************************************************************************)
\* a warning message, by what it says: its kind, the number it gives and the
\* names it lists
Warning(kind, count, items) == [kind |-> kind, count |-> count, items |-> items]

\* /^\d{1,2}\/\d{1,2}\/\d{2,4}$/
IsDate(s) ==
    \E a \in 1..2, b \in 1..2, c \in 2..4 :
        /\ Len(s) = a + b + c + 2
        /\ AllChars(s, 1, a, "digit")
        /\ CharAt(s, a + 1) = "/"
        /\ AllChars(s, a + 2, a + b + 1, "digit")
        /\ CharAt(s, a + b + 2) = "/"
        /\ AllChars(s, a + b + 3, Len(s), "digit")

ShortKeyword == 3

\* the filter of criticalMissing on lower = kw.toLowerCase().trim(): words is
\* its split at whitespace, spans its words as the regular expressions see them
CriticalChecks(lower, words, spans) ==
    LET fillerCount == CountIn(words, FillerWords)
    IN  /\ Len(lower) >= ShortKeyword
        /\ ~(\E word \in {"inc", "llc", "corp", "company", "health inc", "healthcare inc",
                          "school", "university", "college", "harvard", "mit", "stanford"} :
                Includes(lower, word))
        /\ lower \notin {"healthcare", "health", "care", "business", "industry", "slack",
                         "email", "from", "to", "the", "a", "an", "and", "or", "but", "in",
                         "on", "at", "for", "of", "with", "by", "as", "is", "was", "are",
                         "were", "been", "be", "have", "has", "had", "open", "close", "new",
                         "old", "first", "last", "next", "previous", "founder"}
        /\ ~(\E month \in {"january", "february", "march", "april", "may", "june", "july",
                           "august", "september", "october", "november", "december"} :
                Includes(lower, month))
        /\ ~IsDate(lower)
        \* /^(from|to|at|in|on|with|by|for|of)\s+/
        /\ ~(/\ Len(words) > 1
             /\ words[1] \in {"from", "to", "at", "in", "on", "with", "by", "for", "of"})
        /\ lower \notin {"jakob", "john", "jane", "mike", "sarah", "david", "emily", "chris",
                         "lisa", "michael", "omi"}
        /\ ~(\/ HasWordPair(lower, spans, "intern", "posted")
             \/ HasWordPair(lower, spans, "save", "share")
             \/ HasWordPair(lower, spans, "apply", "save")
             \/ HasWordPair(lower, spans, "save", "apply")
             \/ HasWordPair(lower, spans, "apply", "at")
             \/ HasWordThenDigits(lower, spans, "posted")
             \/ HasWordPair(lower, spans, "days", "ago"))
        /\ ~(\/ HasWordPair(lower, spans, "united", "states")
             \/ HasWordPair(lower, spans, "mount", "laurel"))
        \* /^(intern|...)(\s+(intern|...))+$/
        /\ ~(Len(words) > 1 /\ \A i \in 1..Len(words) : words[i] \in GenericWords)
        /\ ~(fillerCount > 0 /\ 2 * fillerCount > Len(words))
        /\ ~(/\ (words[1] \in FillerWords \/ words[Len(words)] \in FillerWords)
             /\ Len(words) <= 3
             /\ fillerCount >= 2)
        /\ ~(/\ Len(words) = 1
             /\ words[1] \in {"app", "application", "role", "job", "position", "work",
                              "team", "company", "this", "that", "what", "which", "who",
                              "you", "your", "the", "a", "an", "open", "close", "new", "old",
                              "first", "last", "next", "previous"})
        /\ ~(/\ Len(words) <= 4
             /\ \E phrase \in {"the role", "this role", "the role this", "what you",
                               "what you need", "the app", "this app", "the application",
                               "this application", "the job", "this job", "the position",
                               "this position", "you will", "you must", "you should",
                               "you need", "you have", "we are", "we have", "we need",
                               "we want", "we offer", "the team", "this team", "our team",
                               "the company", "this company", "the work", "this work",
                               "the project", "this project"} :
                    Includes(lower, phrase))

IsCritical(kw) ==
    CriticalChecks(Trim(ToLowerCase(kw)), SplitWhitespace(Trim(ToLowerCase(kw))),
                   RunSpans(Trim(ToLowerCase(kw)), "word"))

\* jobKeywords.filter(keyword => !tailoredKeywords.some(...)), then the filter
\* of criticalMissing
criticalMissing(jobKeywords, matched) ==
    FilterIdx(jobKeywords, {i \in 1..Len(jobKeywords) :
                               /\ \A j \in 1..Len(matched) : matched[j] # jobKeywords[i]
                               /\ IsCritical(jobKeywords[i])})

LowKeywordMatch == 80

FewMissing == 2

TopMissing == 5

ListedMissing == 3

\* the warning given in flexible mode as well
WarnInEveryMode(generateFreely, keywordMatch, critical) ==
    IF keywordMatch < LowKeywordMatch /\ Len(critical) > FewMissing
    THEN <<Warning("missing keywords", Len(Slice(critical, TopMissing)),
                   Slice(critical, ListedMissing))>>
    ELSE <<>>

\* the warning of the critical keywords missing: the number of the first
\* TopMissing of them, and the first ListedMissing by name
MissingKeywordWarnings(generateFreely, keywordMatch, critical) ==
    IF ~generateFreely /\ keywordMatch < LowKeywordMatch /\ Len(critical) > FewMissing
    THEN <<Warning("missing keywords", Len(Slice(critical, TopMissing)),
                   Slice(critical, ListedMissing))>>
    ELSE <<>>

\* resume.experience of a ParsedResumeContent, [] when the parser gave none
ExperienceOf(resume) == IF "experience" \in DOMAIN resume THEN resume.experience ELSE <<>>

\* the entries' f (company, role or title) that are set
FieldsOf(experience, f) ==
    LET set == FilterIdx(experience, {i \in 1..Len(experience) : experience[i][f] # ""})
    IN  [i \in 1..Len(set) |-> set[i][f]]

extractCompanies(resume) == FieldsOf(ExperienceOf(resume), "company")

\* exp.role || exp.title of the entries that have one
extractJobTitles(resume) ==
    LET experience == ExperienceOf(resume)
        titled == FilterIdx(experience, {i \in 1..Len(experience) :
                                            experience[i].role # "" \/ experience[i].title # ""})
    IN  [i \in 1..Len(titled) |->
            IF titled[i].role # "" THEN titled[i].role ELSE titled[i].title]

\* /(?:at|with|from)\s+([A-Z][a-zA-Z\s&]+?)(?:,|\.|$)/g
companyPattern ==
    [leads |-> {"at", "with", "from"}, separators |-> {" ", "\n", "\t"}, extra |-> {"&"},
     stops |-> {",", "."}, ignoreCase |-> FALSE]

\* /(?:as|position|role|title)[:\s]+([A-Z][a-zA-Z\s]+?)(?:,|\.|at|$)/gi
titlePattern ==
    [leads |-> {"as", "position", "role", "title"}, separators |-> {":", " ", "\n", "\t"},
     extra |-> {}, stops |-> {",", ".", "at"}, ignoreCase |-> TRUE]

\* where the name of a match of pattern that starts at p begins: after one of
\* the leads and the separators that follow it, or 0 (s is the text as the
\* pattern compares it)
NameStart(s, p, pattern) ==
    LET leads == {lead \in pattern.leads : LiteralAt(s, p, lead)}
        q == p + Len(CHOOSE lead \in leads : TRUE)
        e == CHOOSE k \in q..(Len(s) + 1) :
                /\ \A i \in q..(k - 1) : CharAt(s, i) \in pattern.separators
                /\ CharAt(s, k) \notin pattern.separators
    IN  IF leads = {} THEN 0
        ELSE IF e = q \/ e > Len(s) THEN 0
        ELSE e

\* the last position of the match of pattern whose name begins at e > 0, or 0:
\* a letter ([A-Z], any letter when case is ignored), then as few characters
\* of the class as lead to a stop or to the end of the text
NameEnd(text, s, e, pattern) ==
    LET letter(c) == IsUpper(c) \/ (pattern.ignoreCase /\ IsLower(c))
        inClass(c) == IsUpper(c) \/ IsLower(c) \/ IsSpace(c) \/ c \in pattern.extra
        stopAt(j) == {stop \in pattern.stops : LiteralAt(s, j, stop)}
        ends == {j \in (e + 2)..(Len(text) + 1) :
                    /\ \A i \in (e + 1)..(j - 1) : inClass(CharAt(text, i))
                    /\ (j = Len(text) + 1 \/ stopAt(j) # {})}
        first == CHOOSE j \in ends : \A k \in ends : j <= k
    IN  IF ~letter(CharAt(text, e)) \/ ends = {} THEN 0
        ELSE IF first = Len(text) + 1 THEN Len(text)
        ELSE first + Len(CHOOSE stop \in stopAt(first) : TRUE) - 1

\* <<the start of the name, the end of the match>> of a match that starts at p
\* or <<0, 0>>
NamedMatch(text, s, p, pattern) ==
    LET e == NameStart(s, p, pattern)
    IN  IF e = 0 THEN <<0, 0>>
        ELSE IF NameEnd(text, s, e, pattern) = 0 THEN <<0, 0>>
        ELSE <<e, NameEnd(text, s, e, pattern)>>

\* text.match(pattern) from position from on, each match without its lead and
\* trimmed: m.replace(/(?:lead)sep+/i, '').trim()
RECURSIVE NamesFrom(_, _, _, _)
NamesFrom(text, s, from, pattern) ==
    LET starts == {p \in from..Len(text) : NamedMatch(text, s, p, pattern)[2] > 0}
        first == NamedMatch(text, s, CHOOSE p \in starts : \A q \in starts : p <= q, pattern)
    IN  IF starts = {} THEN <<>>
        ELSE <<Trim(SubSeq(text, first[1], first[2]))>>
             \o NamesFrom(text, s, first[2] + 1, pattern)

toolsAndTechnologies ==
    {"github actions", "github", "docker", "kubernetes", "terraform", "jenkins",
     "aws", "azure", "gcp", "react", "vue", "angular", "node", "python", "java",
     "javascript", "typescript", "django", "flask", "laravel", "spring", "express",
     "mysql", "postgresql", "mongodb", "redis", "elasticsearch", "dynamodb",
     "git", "jira", "confluence", "slack", "figma", "sketch", "tableau", "power bi",
     "ci/cd", "devops", "agile", "scrum", "kanban", "tdd", "bdd"}

\* the filter of extractCompaniesFromText on a name
IsCompany(company) ==
    /\ ToLowerCase(company) \notin toolsAndTechnologies
    /\ ~(\E word \in {"actions", "docker", "kubernetes", "github"} :
            Includes(ToLowerCase(company), word))
    /\ \/ Len(SplitWhitespace(company)) > 1
       \/ \E word \in {"inc", "llc", "corp", "ltd"} : Includes(ToLowerCase(company), word)

extractCompaniesFromText(text) ==
    LET names == NamesFrom(text, text, 1, companyPattern)
    IN  FilterIdx(names, {i \in 1..Len(names) : IsCompany(names[i])})

extractJobTitlesFromText(text) == NamesFrom(text, ToLowerCase(text), 1, titlePattern)

\* hasMatch of a tailored title with an original one, both lower-cased
TitlesMatch(titleLower, otLower) ==
    LET common == SeqToSet(SplitWhitespace(titleLower)) \cap SeqToSet(SplitWhitespace(otLower))
    IN  \/ Includes(titleLower, otLower)
        \/ Includes(otLower, titleLower)
        \/ (Cardinality(common) >= 2 /\ \E w \in common : Len(w) > 3)

ManyTitles == 3

\* the warnings of checkHallucination, from the names the extractors give
HallucinationWarnings(originalCompanies, tailoredCompanies, originalTitles, tailoredTitles) ==
    LET newCompanies ==
            FilterIdx(tailoredCompanies,
                {i \in 1..Len(tailoredCompanies) :
                    \A j \in 1..Len(originalCompanies) :
                        ToLowerCase(originalCompanies[j]) # ToLowerCase(tailoredCompanies[i])})
        suspiciousTitles ==
            FilterIdx(tailoredTitles,
                {i \in 1..Len(tailoredTitles) :
                    \A j \in 1..Len(originalTitles) :
                        ~TitlesMatch(ToLowerCase(tailoredTitles[i]),
                                     ToLowerCase(originalTitles[j]))})
    IN  (IF Len(newCompanies) > 0
         THEN <<Warning("new companies", Len(newCompanies), newCompanies)>> ELSE <<>>)
        \o (IF /\ Len(suspiciousTitles) > 0
               \* suspiciousTitles.length > originalTitles.length * 1.5
               /\ \/ 2 * Len(suspiciousTitles) > 3 * Len(originalTitles)
                  \/ Len(suspiciousTitles) >= ManyTitles
            THEN <<Warning("new job titles", 0, <<>>)>> ELSE <<>>)

checkHallucination(originalResume, tailoredContent) ==
    HallucinationWarnings(extractCompanies(originalResume),
                          extractCompaniesFromText(tailoredContent),
                          extractJobTitles(originalResume),
                          extractJobTitlesFromText(tailoredContent))

\* the hallucination check made in both modes
CheckedInEveryMode(originalResume, tailoredContent, generateFreely) ==
    checkHallucination(originalResume, tailoredContent)

\* if (!generateFreely) { ...checkHallucination... }
HallucinationCheck(originalResume, tailoredContent, generateFreely) ==
    IF generateFreely THEN <<>> ELSE checkHallucination(originalResume, tailoredContent)

\* the warnings of checkCompleteness, in the order it pushes them
CompletenessWarnings(tailoredContent) ==
    LET sections == <<"experience", "skills", "education">>
        absent == FilterIdx(sections, {i \in 1..Len(sections) :
                                          ~Includes(ToLowerCase(tailoredContent), sections[i])})
    IN  [i \in 1..Len(absent) |-> Warning("missing section", 1, <<absent[i]>>)]
        \o (IF Len(tailoredContent) < ShortContent
            THEN <<Warning("too short", 0, <<>>)>> ELSE <<>>)

QualityOf(truthfulness, completeness, keywordMatch) ==
    [overall |-> Num(WeightedOverall(truthfulness, completeness, keywordMatch)),
     truthfulness |-> Num(truthfulness),
     completeness |-> Num(completeness),
     keywordMatch |-> Num(keywordMatch)]

\* the QualityScore returned: the scores, the warnings in the order they are
\* pushed, and a flag for each kind of warning given
Scored(scores, hallucination, missing, incomplete) ==
    scores @@ [warnings |-> hallucination \o missing \o incomplete,
               flags |-> [hasHallucination |-> hallucination # <<>>,
                          hasMissingKeywords |-> missing # <<>>,
                          hasIncompleteSections |-> incomplete # <<>>]]

\* validateContent once the keywords of the two texts are extracted
ValidatedOn(originalResume, tailoredContent, generateFreely, jobKeywords, keywordMatch) ==
    Scored(QualityOf(calculateTruthfulness(originalResume, tailoredContent, generateFreely),
                     checkCompleteness(tailoredContent),
                     keywordMatch[1]),
           HallucinationCheck(originalResume, tailoredContent, generateFreely),
           MissingKeywordWarnings(generateFreely, keywordMatch[1],
                                  criticalMissing(jobKeywords, keywordMatch[2])),
           CompletenessWarnings(tailoredContent))

\* <<calculateKeywordMatch, the job keywords matched>>
KeywordMatchOf(jobKeywords, tailoredKeywords) ==
    <<calculateKeywordMatch(jobKeywords, tailoredKeywords),
      QS_Matched(jobKeywords, tailoredKeywords)>>

validateContent(originalResume, tailoredContent, jobDescription, generateFreely) ==
    ValidatedOn(originalResume, tailoredContent, generateFreely,
                QS_extractHighImpactKeywords(jobDescription),
                KeywordMatchOf(QS_extractHighImpactKeywords(jobDescription),
                               QS_extractHighImpactKeywords(tailoredContent)))

(***************************************************************************)
(* ResumeController: what tailor and regenerate do with the two scores     *)
(***************************************************************************)
\* the quality score as validateContent left it
NotAligned(qualityScore, similarityMetrics) == qualityScore

\* typeof keywordCoverage === 'number' holds of every SimilarityMetrics (NaN
\* is a number): keywordMatch and overall are recomputed
AlignKeywordMatch(qualityScore, similarityMetrics) ==
    LET keywordMatch == MathRound(Clamp(similarityMetrics.keywordCoverage))
        truth == OrZero(qualityScore.truthfulness)
        comp == OrZero(qualityScore.completeness)
        kw == OrZero(keywordMatch)
    IN  [qualityScore EXCEPT
            !.keywordMatch = keywordMatch,
            !.overall = Num(WeightedOverall(truth.v \div 10, comp.v \div 10, kw.v \div 10))]

\* A list of the request body: absent, or an array of strings
Absent == [present |-> FALSE, items |-> <<>>]

Given(items) == [present |-> TRUE, items |-> items]

\* list && list.length > 0
NonEmpty(list) == list.present /\ Len(list.items) > 0

\* the keywords of the list that resumeLower includes
Included(list, resumeLower) ==
    FilterIdx(list.items,
              {i \in 1..Len(list.items) : Includes(resumeLower, ToLowerCase(list.items[i]))})

\* allMissingAdded, allMatchedPreserved: no keyword of a non-empty list is absent
AllIncluded(list, resumeLower) ==
    ~NonEmpty(list) \/ Len(Included(list, resumeLower)) = Len(list.items)

\* the boost decided on the missing keywords alone
BoostOnAddedOnly(missingKeywords, matchedKeywords, resumeLower) ==
    /\ AllIncluded(missingKeywords, resumeLower)
    /\ \/ ~missingKeywords.present
       \/ Len(missingKeywords.items) = 0
       \/ (Len(missingKeywords.items) > 0 /\ NonEmpty(matchedKeywords))

\* the boost decided on the two verifications alone
BoostOnVerifiedOnly(missingKeywords, matchedKeywords, resumeLower) ==
    /\ AllIncluded(missingKeywords, resumeLower)
    /\ AllIncluded(matchedKeywords, resumeLower)

\* the boost decided on the shape of the two lists alone
BoostUnverified(missingKeywords, matchedKeywords, resumeLower) ==
    \/ ~missingKeywords.present
    \/ Len(missingKeywords.items) = 0
    \/ (Len(missingKeywords.items) > 0 /\ NonEmpty(matchedKeywords))

ShouldBoost(missingKeywords, matchedKeywords, resumeLower) ==
    /\ AllIncluded(missingKeywords, resumeLower)
    /\ AllIncluded(matchedKeywords, resumeLower)
    /\ \/ ~missingKeywords.present
       \/ Len(missingKeywords.items) = 0
       \/ (Len(missingKeywords.items) > 0 /\ NonEmpty(matchedKeywords))

BoostedScore == 100

\* the scores boosted and the missing keywords cleared, the matched keywords
\* left as calculateSimilarity computed them
BoostScoresOnly(similarityMetrics, missingKeywords, matchedKeywords, resumeLower) ==
    [similarityMetrics EXCEPT
        !.similarityScore = Num(BoostedScore),
        !.keywordCoverage = Num(BoostedScore),
        !.missingKeywords = <<>>]

BoostMetrics(similarityMetrics, missingKeywords, matchedKeywords, resumeLower) ==
    LET addedKeywords == IF NonEmpty(missingKeywords)
                         THEN Included(missingKeywords, resumeLower) ELSE <<>>
        comprehensiveMatched == (IF NonEmpty(matchedKeywords) THEN matchedKeywords.items ELSE <<>>)
                                \o addedKeywords
    IN  [similarityMetrics EXCEPT
            !.similarityScore = Num(BoostedScore),
            !.keywordCoverage = Num(BoostedScore),
            !.missingKeywords = <<>>,
            !.matchedKeywords = Unique(comprehensiveMatched \o similarityMetrics.matchedKeywords)]

BoostQuality(qualityScore) ==
    LET truth == OrZero(qualityScore.truthfulness)
        comp == OrZero(qualityScore.completeness)
    IN  [qualityScore EXCEPT
            !.keywordMatch = Num(BoostedScore),
            !.overall = Num(WeightedOverall(truth.v \div 10, comp.v \div 10, BoostedScore))]

MinJobDescription == 50

NoScores == [absent |-> TRUE]

\* ApiResponseFormatter.error(res, message, status)
ErrorResponse(status) ==
    [status |-> status, fullDocument |-> "", qualityScore |-> NoScores,
     similarityMetrics |-> NoScores]

\* ApiResponseFormatter.success(res, {fullDocument, qualityScore, similarityMetrics, ...})
SuccessResponse(fullTailoredResume, qualityScore, similarityMetrics) ==
    [status |-> 200, fullDocument |-> fullTailoredResume, qualityScore |-> qualityScore,
     similarityMetrics |-> similarityMetrics]

\* prisma.resume.update({data: {tailoredResumeText, qualityScore, similarityMetrics, ...}})
UpdatedRow(row, fullTailoredResume, qualityScore, similarityMetrics) ==
    [row EXCEPT !.tailoredResumeText = fullTailoredResume,
                !.qualityScore = qualityScore,
                !.similarityMetrics = similarityMetrics]

(***************************************************************************)
(* The inputs: texts, request bodies and what the collaborators answer     *)
(***************************************************************************)
ResumePython == "Built REST APIs using Python and AWS Lambda"

ResumeSections ==
    "Experience with Python, Docker and Kubernetes. Skills: AWS. Education: Bachelor degree"

JobPython == "Looking for a developer with Python, AWS, and Docker experience"

JobShort == "Need Python and Kubernetes"

JobPlain == "we want someone who can write and test code every day in our office"

\* a tailored resume that names an employer and a job title
ResumeAcme == "Engineer at Acme Corp, role: Senior Engineer, using Python"

\* a resume of more than ShortContent characters: eight ruled lines
ResumeLong ==
    LET line == "experience and skills and education as needed -----------------" IN
    line \o line \o line \o line \o line \o line \o line \o line

\* the parsed resumes validateContent is called with: with or without text,
\* with or without an experience entry
OriginalResumes ==
    {[raw_text |-> raw_text] : raw_text \in {"", ResumePython}}
    \cup {[raw_text |-> ResumePython,
           experience |-> <<[company |-> "Acme Corp", role |-> "Senior Engineer",
                             title |-> ""]>>]}

\* 33 technical terms: more than MatchedLimit, and more than MissingLimit of
\* them are missing from ResumePython
AllTerms ==
    "Python, Java, Javascript, Typescript, React, Vue, Angular, Node, Django, Flask, "
    \o "Laravel, Spring, Express, Next, Nuxt, Aws, Azure, Gcp, Docker, Kubernetes, "
    \o "Terraform, Jenkins, Gitlab, Github, Mysql, Postgresql, Mongodb, Redis, "
    \o "Elasticsearch, Dynamodb, Agile, Scrum, Kanban"

MaxListLen == 1

\* missingKeywords / matchedKeywords of a regenerate body: absent, or up to
\* MaxListLen of the keywords Kubernetes and Python
KeywordLists ==
    {Absent}
    \cup {Given(items) :
            items \in UNION {[1..n -> {"Kubernetes", "Python"}] : n \in 0..MaxListLen}}

\* a score field of the model's JSON: absent, 66.5, 100, 120, or a string
ScoreValues == {JsUndefined, JsNumber(665), JsNumber(1000), JsNumber(1200), JsString("high")}

JsStrings(items) == JsArray([i \in 1..Len(items) |-> JsString(items[i])])

\* the keyword lists of the model's JSON: none; one matched and one missing;
\* or a matched list with a keyword the resume may lack and a keyword that is
\* listed as missing too
KeywordReplies ==
    {[present |-> FALSE, matched |-> <<>>, missing |-> <<>>],
     [present |-> TRUE, matched |-> <<"Python">>, missing |-> <<"Docker">>],
     [present |-> TRUE, matched |-> <<"Python", "Kubernetes">>, missing |-> <<"Python">>]}

Analysis(similarityScore, keywordCoverage, keywords) ==
    IF keywords.present
    THEN [similarityScore |-> similarityScore,
          matchedKeywords |-> JsStrings(keywords.matched),
          missingKeywords |-> JsStrings(keywords.missing),
          keywordCoverage |-> keywordCoverage,
          semanticMatches |-> [present |-> TRUE, skills |-> JsNumber(800),
                               experience |-> JsNumber(700), education |-> JsNumber(900),
                               tools |-> JsNumber(600)],
          recommendations |-> JsStrings(<<"Add Docker">>),
          highImpactKeywords |-> [present |-> TRUE, matched |-> JsStrings(keywords.matched),
                                  missing |-> JsStrings(keywords.missing)]]
    ELSE [EmptyAnalysis EXCEPT !.similarityScore = similarityScore,
                               !.keywordCoverage = keywordCoverage]

Replies ==
    {[kind |-> kind, analysis |-> EmptyAnalysis] :
        kind \in {"rejected", "no_content", "invalid_json", "null"}}
    \cup {[kind |-> "object", analysis |-> Analysis(similarityScore, keywordCoverage, keywords)] :
            similarityScore \in ScoreValues, keywordCoverage \in ScoreValues,
            keywords \in KeywordReplies}

\* client.chat.completions.create is awaited and its promise never settles
NeverResponds == [kind |-> "never", analysis |-> EmptyAnalysis]

\* the semantic service of a QualityService: not constructed (no API key), or
\* constructed and answered, or constructed and left without an answer
ATSOutcomes ==
    {[constructed |-> FALSE, reply |-> [kind |-> "none", analysis |-> EmptyAnalysis]]}
    \cup {[constructed |-> TRUE, reply |-> reply] : reply \in Replies \cup {NeverResponds}}

\* openAIService.tailorResume / regenerateResume: throws, or a fullResume
\* (possibly empty) with or without structured data
LLMOutcomes ==
    {[kind |-> "throws", fullResume |-> "", structured |-> FALSE]}
    \cup {[kind |-> "content", fullResume |-> text, structured |-> FALSE] :
            text \in {"", ResumePython, ResumeSections}}
    \cup {[kind |-> "content", fullResume |-> "", structured |-> TRUE]}

\* document generation and upload: done, or thrown
DocumentOutcomes == {"stored", "throws"}

NotCalled ==
    [llm |-> [kind |-> "none", fullResume |-> "", structured |-> FALSE],
     ats |-> [constructed |-> FALSE, reply |-> [kind |-> "none", analysis |-> EmptyAnalysis]],
     documents |-> "none"]

\* op is the handler or method; resumeContent and originalResume are the
\* arguments of a direct call of calculateSimilarity or validateContent
NoRequest ==
    [op |-> "none", authenticated |-> FALSE, resumeId |-> "", jobDescription |-> "",
     generateFreely |-> FALSE, missingKeywords |-> Absent, matchedKeywords |-> Absent,
     resumeContent |-> "", originalResume |-> [raw_text |-> ""],
     file |-> FALSE, displayName |-> "", versionId |-> 0, format |-> "docx",
     content |-> [present |-> FALSE, text |-> ""]]

\* the resume of the user that the requests name, as upload stored it, with
\* the snapshot version a download made of it; others is the number of the
\* other resumes of the user, one of which is the default
StoredResume ==
    [resumeId |-> "resume-1", parsedContent |-> [raw_text |-> ResumePython],
     tailoredResumeText |-> "", qualityScore |-> NoScores, similarityMetrics |-> NoScores,
     displayName |-> "resume", isDefault |-> FALSE, deleted |-> FALSE, others |-> 1,
     versions |-> <<[id |-> 1, isCurrent |-> FALSE, tailoredResumeText |-> ResumeSections]>>]

\* resumeId of a request body: none, the user's resume, a resume that is not there
ResumeIds == {"", "resume-1", "resume-2"}

(***************************************************************************)
(* The database the requests share.  A resume row has the user it belongs  *)
(* to, isDefault and its tailored text; a version row has its resume,      *)
(* isCurrent and its text; a token row has the token and when it expires.  *)
(* Rows are numbered in the order they are created in: the id stands for   *)
(* the public resumeId and for createdAt as well.                          *)
(***************************************************************************)
Users == {"A", "B"}

\* the request carries no user: req.user is undefined
NoOne == ""

\* user A has uploaded three resumes, and downloaded the first one, tailored,
\* twice; user B has uploaded two and edited the tailored text of the first
InitialDatabase ==
    [resumes |->
        {[id |-> 1, userId |-> "A", isDefault |-> TRUE, text |-> "tailored"],
         [id |-> 2, userId |-> "A", isDefault |-> FALSE, text |-> ""],
         [id |-> 3, userId |-> "A", isDefault |-> FALSE, text |-> ""],
         [id |-> 4, userId |-> "B", isDefault |-> TRUE, text |-> "edited"],
         [id |-> 5, userId |-> "B", isDefault |-> FALSE, text |-> ""]},
     versions |->
        {[id |-> 1, resumeId |-> 1, isCurrent |-> FALSE, text |-> "tailored"],
         [id |-> 2, resumeId |-> 1, isCurrent |-> FALSE, text |-> "tailored"],
         [id |-> 3, resumeId |-> 4, isCurrent |-> TRUE, text |-> "edited"]},
     tokens |-> {},
     nextResume |-> 6,
     nextVersion |-> 4]

Init ==
    /\ phase = "idle"
    /\ request = NoRequest
    /\ external = NotCalled
    /\ response = ErrorResponse(0)
    /\ persisted = StoredResume
    /\ computed = [similarityMetrics |-> NoScores, qualityScore |-> NoScores]
    /\ calls = <<>>
    /\ database = InitialDatabase
    /\ handlers = {}
    /\ answered = <<>>
    /\ clock = 0

\* the handler has answered
Answer(req, ext, res, row, similarityMetrics, qualityScore) ==
    /\ phase' = "done"
    /\ request' = req
    /\ external' = ext
    /\ response' = res
    /\ persisted' = row
    /\ computed' = [similarityMetrics |-> similarityMetrics, qualityScore |-> qualityScore]
    /\ calls' = calls
    /\ UNCHANGED shared

\* the handler is suspended at an await
Await(req, ext) ==
    /\ phase' = "awaiting"
    /\ request' = req
    /\ external' = ext
    /\ UNCHANGED <<response, persisted, computed, calls>>
    /\ UNCHANGED shared

(***************************************************************************)
(* The handlers.  A value the handler holds in a local is bound once, as   *)
(* the only element of a set.                                              *)
(***************************************************************************)
\* POST /tailor
Tailor ==
    /\ phase = "idle"
    /\ \E resumeId \in ResumeIds, jobDescription \in {"", JobShort, JobPython},
          generateFreely \in BOOLEAN, authenticated \in BOOLEAN :
        LET req == [NoRequest EXCEPT !.op = "tailor", !.resumeId = resumeId,
                                     !.jobDescription = jobDescription,
                                     !.generateFreely = generateFreely,
                                     !.authenticated = authenticated]
            Refuse(status) ==
                Answer(req, NotCalled, ErrorResponse(status), persisted, NoScores, NoScores)
        IN  IF resumeId = "" \/ jobDescription = "" THEN Refuse(422)
            ELSE IF Len(jobDescription) < MinJobDescription THEN Refuse(422)
            ELSE IF ~authenticated THEN Refuse(401)
            ELSE IF resumeId # persisted.resumeId THEN Refuse(404)
            ELSE \E llm \in LLMOutcomes :
                IF llm.kind = "throws"
                THEN Answer(req, [NotCalled EXCEPT !.llm = llm], ErrorResponse(500),
                            persisted, NoScores, NoScores)
                ELSE
                \E fullTailoredResume \in {llm.fullResume} :
                \* fullTailoredResume || originalResumeText
                \E resumeText \in {IF fullTailoredResume # "" THEN fullTailoredResume
                                   ELSE persisted.parsedContent.raw_text} :
                \E validated \in {validateContent(persisted.parsedContent, fullTailoredResume,
                                                  jobDescription, generateFreely)} :
                \E ats \in ATSOutcomes :
                    IF ats.reply = NeverResponds
                    THEN Await(req, [llm |-> llm, ats |-> ats, documents |-> "none"])
                    ELSE
                \E calculated \in {calculateSimilarity(resumeText, jobDescription,
                                                       generateFreely, ats)} :
                    IF Thrown(calculated)
                    THEN Answer(req, [llm |-> llm, ats |-> ats, documents |-> "none"],
                                ErrorResponse(500), persisted, NoScores, NoScores)
                    \* no text and no structured data: nothing to generate from
                    ELSE IF Trim(resumeText) = "" /\ ~llm.structured
                    THEN Answer(req, [llm |-> llm, ats |-> ats, documents |-> "none"],
                                ErrorResponse(500), persisted, calculated, validated)
                    ELSE
                    \E qualityScore \in {AlignKeywordMatch(validated, calculated)} :
                    \E documents \in DocumentOutcomes :
                        IF documents = "throws"
                        THEN Answer(req, [llm |-> llm, ats |-> ats, documents |-> documents],
                                    ErrorResponse(500), persisted, calculated, validated)
                        ELSE Answer(req, [llm |-> llm, ats |-> ats, documents |-> documents],
                                    SuccessResponse(fullTailoredResume, qualityScore, calculated),
                                    UpdatedRow(persisted, fullTailoredResume, qualityScore,
                                               calculated),
                                    calculated, validated)

\* POST /regenerate; currentResumeText of the body only feeds the prompt
Regenerate ==
    /\ phase = "idle"
    /\ \E resumeId \in ResumeIds, jobDescription \in {"", JobPython},
          generateFreely \in BOOLEAN, authenticated \in BOOLEAN :
        LET Request(missingKeywords, matchedKeywords) ==
                [NoRequest EXCEPT !.op = "regenerate", !.resumeId = resumeId,
                                  !.jobDescription = jobDescription,
                                  !.generateFreely = generateFreely,
                                  !.authenticated = authenticated,
                                  !.missingKeywords = missingKeywords,
                                  !.matchedKeywords = matchedKeywords]
            Refuse(status) ==
                \E missingKeywords \in KeywordLists, matchedKeywords \in KeywordLists :
                    Answer(Request(missingKeywords, matchedKeywords), NotCalled,
                           ErrorResponse(status), persisted, NoScores, NoScores)
        IN  IF resumeId = "" \/ jobDescription = "" THEN Refuse(422)
            ELSE IF ~authenticated THEN Refuse(401)
            ELSE IF resumeId # persisted.resumeId THEN Refuse(404)
            ELSE \E llm \in LLMOutcomes :
                \* regenerateResume threw, or the regenerated resume is empty
                IF llm.kind = "throws" \/ Trim(llm.fullResume) = ""
                THEN \E missingKeywords \in KeywordLists, matchedKeywords \in KeywordLists :
                        Answer(Request(missingKeywords, matchedKeywords),
                               [NotCalled EXCEPT !.llm = llm], ErrorResponse(500),
                               persisted, NoScores, NoScores)
                ELSE
                \E fullTailoredResume \in {llm.fullResume} :
                \E resumeLower \in {ToLowerCase(fullTailoredResume)} :
                \E validated \in {validateContent(persisted.parsedContent, fullTailoredResume,
                                                  jobDescription, generateFreely)} :
                \E ats \in ATSOutcomes :
                \E missingKeywords \in KeywordLists, matchedKeywords \in KeywordLists :
                \E req \in {Request(missingKeywords, matchedKeywords)} :
                    IF ats.reply = NeverResponds
                    THEN Await(req, [llm |-> llm, ats |-> ats, documents |-> "none"])
                    ELSE
                \E calculated \in {calculateSimilarity(fullTailoredResume, jobDescription,
                                                       generateFreely, ats)} :
                    IF Thrown(calculated)
                    THEN Answer(req, [llm |-> llm, ats |-> ats, documents |-> "none"],
                                ErrorResponse(500), persisted, NoScores, NoScores)
                    ELSE
                    \E aligned \in {AlignKeywordMatch(validated, calculated)} :
                    \E boost \in {ShouldBoost(missingKeywords, matchedKeywords, resumeLower)} :
                    \E similarityMetrics \in
                            {IF boost
                             THEN BoostMetrics(calculated, missingKeywords, matchedKeywords,
                                               resumeLower)
                             ELSE calculated} :
                    \E qualityScore \in {IF boost THEN BoostQuality(aligned) ELSE aligned} :
                    \E documents \in DocumentOutcomes :
                        IF documents = "throws"
                        THEN Answer(req, [llm |-> llm, ats |-> ats, documents |-> documents],
                                    ErrorResponse(500), persisted, calculated, validated)
                        ELSE Answer(req, [llm |-> llm, ats |-> ats, documents |-> documents],
                                    SuccessResponse(fullTailoredResume, qualityScore,
                                                    similarityMetrics),
                                    UpdatedRow(persisted, fullTailoredResume, qualityScore,
                                               similarityMetrics),
                                    calculated, validated)

\* the texts of a direct call: short ones, the long lists of terms, and the
\* same text as resume and as job description
CallTexts ==
    ({"", ResumePython} \X {"", JobPython, JobPlain})
    \cup {<<AllTerms, AllTerms>>, <<ResumePython, AllTerms>>}
    \cup {<<text, text>> : text \in {ResumePython, JobPython, JobPlain}}

\* a call of QualityService.calculateSimilarity
CalculateSimilarity ==
    /\ phase = "idle"
    /\ \E texts \in CallTexts, generateFreely \in BOOLEAN, ats \in ATSOutcomes :
       \E req \in {[NoRequest EXCEPT !.op = "calculateSimilarity",
                                      !.resumeContent = texts[1],
                                      !.jobDescription = texts[2],
                                      !.generateFreely = generateFreely]} :
            IF ats.reply = NeverResponds
            THEN Await(req, [NotCalled EXCEPT !.ats = ats])
            ELSE
       \E calculated \in {calculateSimilarity(texts[1], texts[2], generateFreely, ats)} :
            Answer(req, [NotCalled EXCEPT !.ats = ats],
                   [ErrorResponse(0) EXCEPT !.similarityMetrics = calculated],
                   persisted, calculated, NoScores)

\* a call of QualityService.validateContent
ValidateContent ==
    /\ phase = "idle"
    /\ \E originalResume \in OriginalResumes,
          tailoredContent \in {"", ResumePython, ResumeSections, ResumeAcme, ResumeLong},
          jobDescription \in {"", JobPython, JobPlain}, generateFreely \in BOOLEAN :
       \E validated \in {validateContent(originalResume, tailoredContent,
                                         jobDescription, generateFreely)} :
            Answer([NoRequest EXCEPT !.op = "validateContent",
                                     !.originalResume = originalResume,
                                     !.resumeContent = tailoredContent,
                                     !.jobDescription = jobDescription,
                                     !.generateFreely = generateFreely],
                   NotCalled,
                   [ErrorResponse(0) EXCEPT !.qualityScore = validated],
                   persisted, NoScores, validated)

\* req.user taken as given
UserAssumed(req) == FALSE

\* !req.user
NoUser(req) == ~req.authenticated

\* POST /upload-resume
Upload ==
    /\ phase = "idle"
    /\ \E file \in BOOLEAN, authenticated \in BOOLEAN, documents \in DocumentOutcomes :
       \E req \in {[NoRequest EXCEPT !.op = "upload", !.file = file,
                                      !.authenticated = authenticated]} :
            IF ~file
            THEN Answer(req, NotCalled, ErrorResponse(422), persisted, NoScores, NoScores)
            ELSE IF NoUser(req)
            THEN Answer(req, NotCalled, ErrorResponse(401), persisted, NoScores, NoScores)
            \* fileUploadService.uploadFile threw
            ELSE IF documents = "throws"
            THEN Answer(req, [NotCalled EXCEPT !.documents = documents], ErrorResponse(500),
                        persisted, NoScores, NoScores)
            \* prisma.resume.create: one more resume, not the default one
            ELSE Answer(req, [NotCalled EXCEPT !.documents = documents],
                        SuccessResponse("", NoScores, NoScores),
                        [persisted EXCEPT !.others = @ + 1], NoScores, NoScores)

\* setDefaultResume: the resume becomes the default one
SetDefaultResume ==
    /\ phase = "idle"
    /\ \E resumeId \in ResumeIds, authenticated \in BOOLEAN :
       \E req \in {[NoRequest EXCEPT !.op = "setDefaultResume", !.resumeId = resumeId,
                                      !.authenticated = authenticated]} :
            IF resumeId = ""
            THEN Answer(req, NotCalled, ErrorResponse(422), persisted, NoScores, NoScores)
            ELSE IF NoUser(req)
            THEN Answer(req, NotCalled, ErrorResponse(401), persisted, NoScores, NoScores)
            ELSE IF resumeId # persisted.resumeId
            THEN Answer(req, NotCalled, ErrorResponse(404), persisted, NoScores, NoScores)
            ELSE Answer(req, NotCalled, SuccessResponse("", NoScores, NoScores),
                        [persisted EXCEPT !.isDefault = TRUE], NoScores, NoScores)

\* updateResumeName: the trimmed display name is stored
UpdateResumeName ==
    /\ phase = "idle"
    /\ \E resumeId \in ResumeIds, displayName \in {"", "  ", " My CV "},
          authenticated \in BOOLEAN :
       \E req \in {[NoRequest EXCEPT !.op = "updateResumeName", !.resumeId = resumeId,
                                      !.displayName = displayName,
                                      !.authenticated = authenticated]} :
            IF resumeId = ""
            THEN Answer(req, NotCalled, ErrorResponse(422), persisted, NoScores, NoScores)
            ELSE IF displayName = "" \/ Trim(displayName) = ""
            THEN Answer(req, NotCalled, ErrorResponse(422), persisted, NoScores, NoScores)
            ELSE IF NoUser(req)
            THEN Answer(req, NotCalled, ErrorResponse(401), persisted, NoScores, NoScores)
            ELSE IF resumeId # persisted.resumeId
            THEN Answer(req, NotCalled, ErrorResponse(404), persisted, NoScores, NoScores)
            ELSE Answer(req, NotCalled, SuccessResponse("", NoScores, NoScores),
                        [persisted EXCEPT !.displayName = Trim(displayName)],
                        NoScores, NoScores)

\* deleteResume: the files are deleted from the storage (a failure is only
\* logged), the row is deleted and a remaining resume becomes the default
DeleteResume ==
    /\ phase = "idle"
    /\ \E resumeId \in ResumeIds, authenticated \in BOOLEAN,
          documents \in {"deleted", "throws"} :
       \E req \in {[NoRequest EXCEPT !.op = "deleteResume", !.resumeId = resumeId,
                                      !.authenticated = authenticated]} :
            IF resumeId = ""
            THEN Answer(req, NotCalled, ErrorResponse(422), persisted, NoScores, NoScores)
            ELSE IF NoUser(req)
            THEN Answer(req, NotCalled, ErrorResponse(401), persisted, NoScores, NoScores)
            ELSE IF resumeId # persisted.resumeId
            THEN Answer(req, NotCalled, ErrorResponse(404), persisted, NoScores, NoScores)
            \* resumeCount <= 1
            ELSE IF persisted.others + 1 <= 1
            THEN Answer(req, NotCalled, ErrorResponse(400), persisted, NoScores, NoScores)
            ELSE Answer(req, [NotCalled EXCEPT !.documents = documents],
                        SuccessResponse("", NoScores, NoScores),
                        [persisted EXCEPT !.deleted = TRUE], NoScores, NoScores)

\* POST /download-tailored-resume: the document is generated from the content
\* of the body or from the stored tailored text, uploaded, and recorded as a
\* snapshot version (a failure of the upload is only logged); a PDF that
\* cannot be generated is sent as DOCX, without a version
Download ==
    /\ phase = "idle"
    /\ \E resumeId \in ResumeIds, format \in {"docx", "pdf"},
          text \in {"", ResumePython}, authenticated \in BOOLEAN,
          documents \in DocumentOutcomes \cup {"generated"} :
       \E req \in {[NoRequest EXCEPT !.op = "download", !.resumeId = resumeId,
                                      !.format = format,
                                      !.content = [present |-> text # "", text |-> text],
                                      !.authenticated = authenticated]} :
       \E resumeText \in {IF text # "" THEN text ELSE persisted.tailoredResumeText} :
            IF resumeId = ""
            THEN Answer(req, NotCalled, ErrorResponse(422), persisted, NoScores, NoScores)
            ELSE IF NoUser(req)
            THEN Answer(req, NotCalled, ErrorResponse(401), persisted, NoScores, NoScores)
            ELSE IF resumeId # persisted.resumeId
            THEN Answer(req, NotCalled, ErrorResponse(404), persisted, NoScores, NoScores)
            \* no text and no download URL stored
            ELSE IF resumeText = ""
            THEN Answer(req, NotCalled, ErrorResponse(404), persisted, NoScores, NoScores)
            ELSE IF documents = "throws"
            THEN Answer(req, [NotCalled EXCEPT !.documents = documents],
                        IF format = "pdf" THEN SuccessResponse(resumeText, NoScores, NoScores)
                        ELSE ErrorResponse(500),
                        persisted, NoScores, NoScores)
            ELSE IF documents = "generated"
            THEN Answer(req, [NotCalled EXCEPT !.documents = documents],
                        SuccessResponse(resumeText, NoScores, NoScores),
                        persisted, NoScores, NoScores)
            ELSE Answer(req, [NotCalled EXCEPT !.documents = documents],
                        SuccessResponse(resumeText, NoScores, NoScores),
                        [persisted EXCEPT !.versions =
                            Append(@, [id |-> Len(@) + 1, isCurrent |-> FALSE,
                                       tailoredResumeText |-> resumeText])],
                        NoScores, NoScores)

\* POST /update-tailored-content: the text of the body is stored in the row
\* and in the current version, or in a new current version when there is none
UpdateTailoredContent ==
    /\ phase = "idle"
    /\ \E resumeId \in ResumeIds, authenticated \in BOOLEAN,
          content \in {[present |-> FALSE, text |-> ""], [present |-> TRUE, text |-> ""],
                       [present |-> TRUE, text |-> ResumePython]} :
       \E req \in {[NoRequest EXCEPT !.op = "updateTailoredContent",
                                      !.resumeId = resumeId, !.content = content,
                                      !.authenticated = authenticated]} :
       \E current \in {{i \in 1..Len(persisted.versions) : persisted.versions[i].isCurrent}} :
            IF resumeId = ""
            THEN Answer(req, NotCalled, ErrorResponse(422), persisted, NoScores, NoScores)
            ELSE IF NoUser(req)
            THEN Answer(req, NotCalled, ErrorResponse(401), persisted, NoScores, NoScores)
            ELSE IF resumeId # persisted.resumeId
            THEN Answer(req, NotCalled, ErrorResponse(404), persisted, NoScores, NoScores)
            \* Object.keys(updateData).length === 0
            ELSE IF ~content.present
            THEN Answer(req, NotCalled, ErrorResponse(422), persisted, NoScores, NoScores)
            ELSE Answer(req, NotCalled, SuccessResponse("", NoScores, NoScores),
                        [persisted EXCEPT
                            !.tailoredResumeText = content.text,
                            !.versions =
                                IF current # {}
                                THEN [i \in 1..Len(@) |->
                                        IF i \in current
                                        THEN [@[i] EXCEPT !.tailoredResumeText = content.text]
                                        ELSE @[i]]
                                ELSE IF content.text # ""
                                THEN Append(@, [id |-> Len(@) + 1, isCurrent |-> TRUE,
                                                tailoredResumeText |-> content.text])
                                ELSE @],
                        NoScores, NoScores)

\* promoteVersionToMain: the version becomes the current one and its text
\* the tailored text of the resume
PromoteVersionToMain ==
    /\ phase = "idle"
    /\ \E versionId \in 0..2, authenticated \in BOOLEAN :
       \E req \in {[NoRequest EXCEPT !.op = "promoteVersionToMain",
                                      !.versionId = versionId,
                                      !.authenticated = authenticated]} :
       \E found \in {{i \in 1..Len(persisted.versions) :
                          persisted.versions[i].id = versionId}} :
            IF versionId = 0
            THEN Answer(req, NotCalled, ErrorResponse(422), persisted, NoScores, NoScores)
            ELSE IF NoUser(req)
            THEN Answer(req, NotCalled, ErrorResponse(401), persisted, NoScores, NoScores)
            ELSE IF found = {}
            THEN Answer(req, NotCalled, ErrorResponse(404), persisted, NoScores, NoScores)
            ELSE Answer(req, NotCalled, SuccessResponse("", NoScores, NoScores),
                        [persisted EXCEPT
                            !.tailoredResumeText =
                                persisted.versions[CHOOSE i \in found : TRUE].tailoredResumeText,
                            !.versions = [i \in 1..Len(@) |->
                                            [@[i] EXCEPT !.isCurrent = (i \in found)]]],
                        NoScores, NoScores)

\* deleteResumeVersion: the files of the version are deleted from the storage
\* (a failure is only logged) and the version is deleted
DeleteResumeVersion ==
    /\ phase = "idle"
    /\ \E versionId \in 0..2, authenticated \in BOOLEAN,
          documents \in {"deleted", "throws"} :
       \E req \in {[NoRequest EXCEPT !.op = "deleteResumeVersion",
                                      !.versionId = versionId,
                                      !.authenticated = authenticated]} :
       \E found \in {{i \in 1..Len(persisted.versions) :
                          persisted.versions[i].id = versionId}} :
            IF versionId = 0
            THEN Answer(req, NotCalled, ErrorResponse(422), persisted, NoScores, NoScores)
            ELSE IF NoUser(req)
            THEN Answer(req, NotCalled, ErrorResponse(401), persisted, NoScores, NoScores)
            ELSE IF found = {}
            THEN Answer(req, NotCalled, ErrorResponse(404), persisted, NoScores, NoScores)
            ELSE Answer(req, [NotCalled EXCEPT !.documents = documents],
                        SuccessResponse("", NoScores, NoScores),
                        [persisted EXCEPT
                            !.versions = FilterIdx(@, (1..Len(@)) \ found)],
                        NoScores, NoScores)

\* the keywords the matchers are called with
MatchKeywords ==
    {"Python", "python", "it", "fit", "Java", "JavaScript", "Project Management",
     "Product Management", "Cloud", "AWS Lambda"}

\* the call of a private method has returned
Returned(method, service, args, returned) ==
    [method |-> method, service |-> service, args |-> args, returned |-> returned]

\* a call of isSemanticMatch of the QualityService ("quality") or of the
\* SemanticATSService ("semantic")
IsSemanticMatch ==
    /\ phase = "idle"
    /\ \E service \in {"quality", "semantic"}, keyword1 \in MatchKeywords,
          keyword2 \in MatchKeywords :
        calls' = Append(calls,
                        Returned("isSemanticMatch", service, <<keyword1, keyword2>>,
                                 IF service = "quality"
                                 THEN QS_isSemanticMatch(keyword1, keyword2)
                                 ELSE ATS_isSemanticMatch(keyword1, keyword2)))
    /\ phase' = "done"
    /\ UNCHANGED <<request, external, response, persisted, computed>>
    /\ UNCHANGED shared

\* texts with acronyms of two and more letters, capitalized words and noise
ExtractTexts ==
    {"", ResumePython, JobPython,
     "Built AI and UX tools in Go with AWS, SQL and CI/CD", "Apply by May: QA Lead, US"}

\* a call of SemanticATSService.extractHighImpactKeywords
ExtractHighImpactKeywords ==
    /\ phase = "idle"
    /\ \E text \in ExtractTexts :
        calls' = Append(calls,
                        Returned("extractHighImpactKeywords", "semantic", <<text>>,
                                 ATS_extractHighImpactKeywords(text)))
    /\ phase' = "done"
    /\ UNCHANGED <<request, external, response, persisted, computed>>
    /\ UNCHANGED shared

Next ==
    \/ Tailor \/ Regenerate \/ CalculateSimilarity \/ ValidateContent \/ IsSemanticMatch
    \/ ExtractHighImpactKeywords
    \/ Upload \/ SetDefaultResume \/ UpdateResumeName \/ DeleteResume \/ Download
    \/ UpdateTailoredContent \/ PromoteVersionToMain \/ DeleteResumeVersion

Spec == Init /\ [][Next]_vars

(***************************************************************************)
(* The handlers as requests that share the database.  A handler runs up to *)
(* its next await in one step; the steps of the requests in flight         *)
(* interleave.                                                             *)
(***************************************************************************)
MaxRequests == 2

\* no token is presented
NoToken == [userId |-> "", iat |-> 0 - 1]

\* a request as the server receives it: found, version and text are the
\* locals the handler keeps across its awaits
Received(op, user, resumeId, versionId, body, token) ==
    [n |-> Len(answered) + Cardinality(handlers) + 1, op |-> op, user |-> user,
     resumeId |-> resumeId, versionId |-> versionId, body |-> body, token |-> token,
     pc |-> "received", found |-> 0, version |-> 0, text |-> "", admitted |-> FALSE,
     started |-> Len(answered), status |-> 0]

\* the database call takes effect and the handler goes on as next
Step(h, db, next) ==
    /\ database' = db
    /\ handlers' = (handlers \ {h}) \cup {next}
    /\ answered' = answered

\* the database call takes effect and the handler answers with status
Reply(h, db, status) ==
    /\ database' = db
    /\ handlers' = handlers \ {h}
    /\ answered' = Append(answered, [h EXCEPT !.pc = "answered", !.status = status])

\* what the handler answers before its first await: 422 when the body lacks
\* what it must hold, 401 without req.user, or 0 when it goes on
Prologue(h, bodyHolds) == IF ~bodyHolds THEN 422 ELSE IF h.user = NoOne THEN 401 ELSE 0

\* prisma.resume.findFirst({where: {resumeId, userId}}) with any user
FindAnyResume(db, resumeId, user) == {r \in db.resumes : r.id = resumeId}

\* prisma.resume.findFirst({where: {resumeId, userId: user.id}})
FindResume(db, resumeId, user) == {r \in db.resumes : r.id = resumeId /\ r.userId = user}

\* prisma.resumeVersion.findFirst({where: {id, resume: {userId: user.id}}})
FindVersion(db, versionId, user) ==
    {v \in db.versions :
        v.id = versionId /\ \E r \in db.resumes : r.id = v.resumeId /\ r.userId = user}

\* prisma.resume.count / findMany({where: {userId}})
ResumesOf(db, user) == {r \in db.resumes : r.userId = user}

Ids(rows) == {r.id : r \in rows}

\* prisma.resume.update / updateMany: field f of the rows ids becomes value
UpdateResumes(db, ids, f, value) ==
    [db EXCEPT !.resumes = {IF r.id \in ids THEN [r EXCEPT ![f] = value] ELSE r : r \in @}]

\* prisma.resumeVersion.update / updateMany
UpdateVersions(db, ids, f, value) ==
    [db EXCEPT !.versions = {IF v.id \in ids THEN [v EXCEPT ![f] = value] ELSE v : v \in @}]

\* prisma.resumeVersion.create
CreateVersion(db, resumeId, isCurrent, text) ==
    [db EXCEPT !.versions = @ \cup {[id |-> db.nextVersion, resumeId |-> resumeId,
                                     isCurrent |-> isCurrent, text |-> text]},
               !.nextVersion = @ + 1]

\* what the requests ask for: <<the handler, resumeId, versionId, body>>, 0
\* being an id the body lacks
ResumeRequests ==
    {<<"upload", 0, 0, body>> : body \in {"file", "none"}}
    \cup {<<op, resumeId, 0, "">> :
            op \in {"setDefaultResume", "deleteResume"}, resumeId \in {0, 1, 2, 4, 5}}
    \cup {<<op, resumeId, 0, body>> :
            op \in {"tailor", "regenerate", "updateResumeName"},
            resumeId \in {0, 1, 4}, body \in {"valid", "invalid"}}
    \cup {<<"correctParsedContent", resumeId, 0, body>> :
            resumeId \in {0, 1, 4}, body \in {"valid", "invalid", "short"}}
    \cup {<<"download", resumeId, 0, body>> :
            resumeId \in {0, 1, 2, 4}, body \in {"content", "none"}}
    \cup {<<"updateTailoredContent", resumeId, 0, body>> :
            resumeId \in {0, 1, 4}, body \in {"text", "coverLetter", "none"}}
    \cup {<<op, 0, versionId, "">> :
            op \in {"promoteVersionToMain", "deleteResumeVersion"}, versionId \in 0..3}

Receive ==
    /\ Len(answered) + Cardinality(handlers) < MaxRequests
    /\ \E user \in Users \cup {NoOne}, asked \in ResumeRequests :
        handlers' = handlers \cup {Received(asked[1], user, asked[2], asked[3], asked[4],
                                            NoToken)}
    /\ UNCHANGED <<database, answered, clock, single>>

\* found is 1 when the resume is the user's first one
UploadStep ==
    \E h \in handlers :
        /\ h.op = "upload"
        /\ UNCHANGED <<clock, single>>
        /\ CASE h.pc = "received" ->
                IF Prologue(h, h.body = "file") # 0
                THEN Reply(h, database, Prologue(h, h.body = "file"))
                ELSE Step(h, database,
                          [h EXCEPT !.pc = "store",
                                    !.found = IF ResumesOf(database, h.user) = {}
                                              THEN 1 ELSE 0])
             \* uploadFile and parse: done, or thrown
             [] h.pc = "store" ->
                \/ Reply(h, database, 500)
                \/ Step(h, database,
                        [h EXCEPT !.pc = IF h.found = 1 THEN "unset" ELSE "create"])
             [] h.pc = "unset" ->
                Step(h, UpdateResumes(database, Ids(ResumesOf(database, h.user)),
                                      "isDefault", FALSE),
                     [h EXCEPT !.pc = "create"])
             [] h.pc = "create" ->
                Reply(h, [database EXCEPT
                             !.resumes = @ \cup {[id |-> database.nextResume,
                                                  userId |-> h.user,
                                                  isDefault |-> h.found = 1,
                                                  text |-> ""]},
                             !.nextResume = @ + 1],
                      200)

SetDefaultResumeStep ==
    \E h \in handlers :
        /\ h.op = "setDefaultResume"
        /\ UNCHANGED <<clock, single>>
        /\ CASE h.pc = "received" ->
                IF Prologue(h, h.resumeId # 0) # 0
                THEN Reply(h, database, Prologue(h, h.resumeId # 0))
                ELSE IF FindResume(database, h.resumeId, h.user) = {}
                THEN Reply(h, database, 404)
                ELSE Step(h, database, [h EXCEPT !.pc = "unset", !.found = h.resumeId])
             [] h.pc = "unset" ->
                Step(h, UpdateResumes(database, Ids(ResumesOf(database, h.user)),
                                      "isDefault", FALSE),
                     [h EXCEPT !.pc = "set"])
             \* update of a row that is gone throws
             [] h.pc = "set" ->
                IF h.found \in Ids(database.resumes)
                THEN Reply(h, UpdateResumes(database, {h.found}, "isDefault", TRUE), 200)
                ELSE Reply(h, database, 500)

\* the latest resume of the user that remains: the one that gets the default
LatestRemaining(db, user) ==
    {r \in ResumesOf(db, user) : \A o \in ResumesOf(db, user) : o.id <= r.id}

DeleteResumeStep ==
    \E h \in handlers :
        /\ h.op = "deleteResume"
        /\ UNCHANGED <<clock, single>>
        /\ CASE h.pc = "received" ->
                IF Prologue(h, h.resumeId # 0) # 0
                THEN Reply(h, database, Prologue(h, h.resumeId # 0))
                ELSE IF FindResume(database, h.resumeId, h.user) = {}
                THEN Reply(h, database, 404)
                ELSE Step(h, database, [h EXCEPT !.pc = "count", !.found = h.resumeId])
             [] h.pc = "count" ->
                IF Cardinality(ResumesOf(database, h.user)) <= 1
                THEN Reply(h, database, 400)
                ELSE Step(h, database, [h EXCEPT !.pc = "delete"])
             \* the files are deleted, failing or not; the delete of a row that
             \* is gone throws; the versions of the resume go with it
             [] h.pc = "delete" ->
                IF h.found \in Ids(database.resumes)
                THEN Step(h, [database EXCEPT
                                 !.resumes = {r \in @ : r.id # h.found},
                                 !.versions = {v \in @ : v.resumeId # h.found}],
                          [h EXCEPT !.pc = "remaining"])
                ELSE Reply(h, database, 500)
             [] h.pc = "remaining" ->
                IF LatestRemaining(database, h.user) = {}
                THEN Reply(h, database, 200)
                ELSE Step(h, database,
                          [h EXCEPT !.pc = "default",
                                    !.found = CHOOSE id \in Ids(LatestRemaining(database,
                                                                                h.user)) :
                                                 TRUE])
             [] h.pc = "default" ->
                IF h.found \in Ids(database.resumes)
                THEN Reply(h, UpdateResumes(database, {h.found}, "isDefault", TRUE), 200)
                ELSE Reply(h, database, 500)

TailorStep ==
    \E h \in handlers :
        /\ h.op = "tailor"
        /\ UNCHANGED <<clock, single>>
        /\ CASE h.pc = "received" ->
                IF Prologue(h, h.resumeId # 0 /\ h.body = "valid") # 0
                THEN Reply(h, database, Prologue(h, h.resumeId # 0 /\ h.body = "valid"))
                ELSE IF FindResume(database, h.resumeId, h.user) = {}
                THEN Reply(h, database, 404)
                ELSE Step(h, database, [h EXCEPT !.pc = "update", !.found = h.resumeId])
             \* a service threw, or the row is updated
             [] h.pc = "update" ->
                \/ Reply(h, database, 500)
                \/ IF h.found \in Ids(database.resumes)
                   THEN Reply(h, UpdateResumes(database, {h.found}, "text", "tailored"), 200)
                   ELSE Reply(h, database, 500)

RegenerateStep ==
    \E h \in handlers :
        /\ h.op = "regenerate"
        /\ UNCHANGED <<clock, single>>
        /\ CASE h.pc = "received" ->
                IF Prologue(h, h.resumeId # 0 /\ h.body = "valid") # 0
                THEN Reply(h, database, Prologue(h, h.resumeId # 0 /\ h.body = "valid"))
                ELSE IF FindResume(database, h.resumeId, h.user) = {}
                THEN Reply(h, database, 404)
                ELSE Step(h, database, [h EXCEPT !.pc = "update", !.found = h.resumeId])
             [] h.pc = "update" ->
                \/ Reply(h, database, 500)
                \/ IF h.found \in Ids(database.resumes)
                   THEN Reply(h, UpdateResumes(database, {h.found}, "text", "tailored"), 200)
                   ELSE Reply(h, database, 500)

\* the display name is no part of the rows here: the update only needs
\* its row
UpdateResumeNameStep ==
    \E h \in handlers :
        /\ h.op = "updateResumeName"
        /\ UNCHANGED <<clock, single>>
        /\ CASE h.pc = "received" ->
                IF Prologue(h, h.resumeId # 0 /\ h.body = "valid") # 0
                THEN Reply(h, database, Prologue(h, h.resumeId # 0 /\ h.body = "valid"))
                ELSE IF FindResume(database, h.resumeId, h.user) = {}
                THEN Reply(h, database, 404)
                ELSE Step(h, database, [h EXCEPT !.pc = "update", !.found = h.resumeId])
             [] h.pc = "update" ->
                Reply(h, database, IF h.found \in Ids(database.resumes) THEN 200 ELSE 500)

\* the body "short" holds a corrected content whose raw_text is too short
CorrectParsedContentStep ==
    \E h \in handlers :
        /\ h.op = "correctParsedContent"
        /\ UNCHANGED <<clock, single>>
        /\ CASE h.pc = "received" ->
                IF Prologue(h, h.resumeId # 0 /\ h.body # "invalid") # 0
                THEN Reply(h, database, Prologue(h, h.resumeId # 0 /\ h.body # "invalid"))
                ELSE IF FindResume(database, h.resumeId, h.user) = {}
                THEN Reply(h, database, 404)
                ELSE IF h.body = "short"
                THEN Reply(h, database, 422)
                ELSE Step(h, database, [h EXCEPT !.pc = "update", !.found = h.resumeId])
             [] h.pc = "update" ->
                Reply(h, database, IF h.found \in Ids(database.resumes) THEN 200 ELSE 500)

DownloadStep ==
    \E h \in handlers :
        /\ h.op = "download"
        /\ UNCHANGED <<clock, single>>
        /\ CASE h.pc = "received" ->
                IF Prologue(h, h.resumeId # 0) # 0
                THEN Reply(h, database, Prologue(h, h.resumeId # 0))
                ELSE IF FindResume(database, h.resumeId, h.user) = {}
                THEN Reply(h, database, 404)
                ELSE \E resume \in FindResume(database, h.resumeId, h.user) :
                        \* neither content nor saved text, and no file stored
                        IF h.body # "content" /\ resume.text = ""
                        THEN Reply(h, database, 404)
                        ELSE Step(h, database,
                                  [h EXCEPT !.pc = "snapshot", !.found = resume.id,
                                            !.text = IF h.body = "content" THEN "edited"
                                                     ELSE resume.text])
             \* the document generation threw; or the upload or the create
             \* threw, which is caught; or the snapshot version is created
             [] h.pc = "snapshot" ->
                \/ Reply(h, database, 500)
                \/ Reply(h, database, 200)
                \/ /\ h.found \in Ids(database.resumes)
                   /\ Reply(h, CreateVersion(database, h.found, FALSE, h.text), 200)

UpdateTailoredContentStep ==
    \E h \in handlers :
        /\ h.op = "updateTailoredContent"
        /\ UNCHANGED <<clock, single>>
        /\ CASE h.pc = "received" ->
                IF Prologue(h, h.resumeId # 0) # 0
                THEN Reply(h, database, Prologue(h, h.resumeId # 0))
                ELSE IF FindResume(database, h.resumeId, h.user) = {}
                THEN Reply(h, database, 404)
                ELSE IF h.body = "none"
                THEN Reply(h, database, 422)
                ELSE Step(h, database, [h EXCEPT !.pc = "update", !.found = h.resumeId])
             [] h.pc \in {"update", "again"} ->
                IF h.found \notin Ids(database.resumes)
                THEN Reply(h, database, 500)
                ELSE \E updated \in {IF h.body = "text"
                                     THEN UpdateResumes(database, {h.found}, "text", "edited")
                                     ELSE database} :
                        IF h.pc = "update"
                        THEN Step(h, updated, [h EXCEPT !.pc = "current"])
                        ELSE Reply(h, updated, 200)
             \* findFirst({where: {resumeId, isCurrent: true}})
             [] h.pc = "current" ->
                \E current \in {{v \in database.versions :
                                    v.resumeId = h.found /\ v.isCurrent}} :
                    IF current # {}
                    THEN \E v \in current :
                            Step(h, database, [h EXCEPT !.pc = "version", !.version = v.id])
                    ELSE IF h.body = "text"
                    THEN Step(h, database, [h EXCEPT !.pc = "unset"])
                    ELSE Step(h, database, [h EXCEPT !.pc = "again"])
             [] h.pc = "version" ->
                IF h.version \notin Ids(database.versions)
                THEN Reply(h, database, 500)
                ELSE Step(h, IF h.body = "text"
                             THEN UpdateVersions(database, {h.version}, "text", "edited")
                             ELSE database,
                          [h EXCEPT !.pc = "again"])
             [] h.pc = "unset" ->
                Step(h, UpdateVersions(database,
                                       Ids({v \in database.versions : v.resumeId = h.found}),
                                       "isCurrent", FALSE),
                     [h EXCEPT !.pc = "create"])
             \* the create of a version of a resume that is gone throws
             [] h.pc = "create" ->
                IF h.found \notin Ids(database.resumes)
                THEN Reply(h, database, 500)
                ELSE Step(h, CreateVersion(database, h.found, TRUE, "edited"),
                          [h EXCEPT !.pc = "again"])

PromoteVersionToMainStep ==
    \E h \in handlers :
        /\ h.op = "promoteVersionToMain"
        /\ UNCHANGED <<clock, single>>
        /\ CASE h.pc = "received" ->
                IF Prologue(h, h.versionId # 0) # 0
                THEN Reply(h, database, Prologue(h, h.versionId # 0))
                ELSE IF FindVersion(database, h.versionId, h.user) = {}
                THEN Reply(h, database, 404)
                ELSE \E v \in FindVersion(database, h.versionId, h.user) :
                        Step(h, database,
                             [h EXCEPT !.pc = "unset", !.found = v.resumeId,
                                       !.version = v.id, !.text = v.text])
             [] h.pc = "unset" ->
                Step(h, UpdateVersions(database,
                                       Ids({v \in database.versions :
                                               v.resumeId = h.found /\ v.id # h.version}),
                                       "isCurrent", FALSE),
                     [h EXCEPT !.pc = "set"])
             [] h.pc = "set" ->
                IF h.version \notin Ids(database.versions)
                THEN Reply(h, database, 500)
                ELSE Step(h, UpdateVersions(database, {h.version}, "isCurrent", TRUE),
                          [h EXCEPT !.pc = "resume"])
             [] h.pc = "resume" ->
                IF h.found \notin Ids(database.resumes)
                THEN Reply(h, database, 500)
                ELSE Reply(h, UpdateResumes(database, {h.found}, "text", h.text), 200)

DeleteResumeVersionStep ==
    \E h \in handlers :
        /\ h.op = "deleteResumeVersion"
        /\ UNCHANGED <<clock, single>>
        /\ CASE h.pc = "received" ->
                IF Prologue(h, h.versionId # 0) # 0
                THEN Reply(h, database, Prologue(h, h.versionId # 0))
                ELSE IF FindVersion(database, h.versionId, h.user) = {}
                THEN Reply(h, database, 404)
                ELSE Step(h, database, [h EXCEPT !.pc = "delete", !.version = h.versionId])
             \* the files are deleted, failing or not; the delete of a row that
             \* is gone throws
             [] h.pc = "delete" ->
                IF h.version \notin Ids(database.versions)
                THEN Reply(h, database, 500)
                ELSE Reply(h, [database EXCEPT !.versions = {v \in @ : v.id # h.version}],
                           200)

NextDb ==
    \/ Receive \/ UploadStep \/ SetDefaultResumeStep \/ DeleteResumeStep \/ TailorStep
    \/ RegenerateStep \/ UpdateResumeNameStep \/ CorrectParsedContentStep
    \/ DownloadStep \/ UpdateTailoredContentStep \/ PromoteVersionToMainStep
    \/ DeleteResumeVersionStep

SpecDb == Init /\ [][NextDb]_vars

(***************************************************************************)
(* Login, authenticate and logout over the token records.  The clock       *)
(* counts seconds: a token is signed with the second of its issue, so two  *)
(* logins of a user within a second sign the same token.                   *)
(***************************************************************************)
MaxAuthRequests == 4
MaxSeconds == 0
MaxTogether == 2
TokenLife == 604800
MaxClock == TokenLife

\* jwt.sign({userId, email}, secret, {expiresIn}): the payload and iat
generateToken(userId, now) == [userId |-> userId, iat |-> now]

\* a token under another signature
Forged == [userId |-> "A", iat |-> 0 - 2]

\* jwt.verify: the signature is the server's and exp is still to come
Verifies(token, now) == token.iat >= 0 /\ now < token.iat + TokenLife

\* prisma.token.findUnique({where: {token}})
TokenRecords(db, token) == {t \in db.tokens : t.token = token}

\* the users who log in
LoginUsers == {"A"}

\* the tokens the logins have answered with
Issued ==
    {answered[i].token :
        i \in {k \in 1..Len(answered) :
                  answered[k].op = "login" /\ answered[k].status = 200}}

ReceiveAuth ==
    /\ Len(answered) + Cardinality(handlers) < MaxAuthRequests
    /\ Cardinality(handlers) < MaxTogether
    /\ \/ \E user \in LoginUsers, body \in {"password", "wrong", "none"} :
            handlers' = handlers \cup {Received("login", user, 0, 0, body, NoToken)}
       \/ \E op \in {"authenticate", "logout"}, token \in Issued \cup {NoToken, Forged} :
            handlers' = handlers \cup {Received(op, NoOne, 0, 0, "", token)}
    /\ UNCHANGED <<database, answered, clock, single>>

\* the body "wrong" holds an unknown email or a wrong password
LoginStep ==
    \E h \in handlers :
        /\ h.op = "login"
        /\ UNCHANGED <<clock, single>>
        /\ CASE h.pc = "received" ->
                IF h.body = "none"
                THEN Reply(h, database, 422)
                ELSE Step(h, database, [h EXCEPT !.pc = "compare"])
             [] h.pc = "compare" ->
                IF h.body = "wrong"
                THEN Reply(h, database, 401)
                ELSE Step(h, database,
                          [h EXCEPT !.pc = "create", !.token = generateToken(h.user, clock)])
             \* tokens.token is unique: the create of a token that is there throws
             [] h.pc = "create" ->
                IF TokenRecords(database, h.token) # {}
                THEN Reply(h, database, 500)
                ELSE Reply(h, [database EXCEPT
                                  !.tokens = @ \cup {[token |-> h.token, userId |-> h.user,
                                                      expiresAt |-> h.token.iat + TokenLife]}],
                           200)

\* authenticate, before the handler of the route or before logout
AuthenticateStep ==
    \E h \in handlers :
        /\ h.op \in {"authenticate", "logout"}
        /\ UNCHANGED <<clock, single>>
        /\ CASE h.pc = "received" ->
                IF h.token = NoToken \/ ~Verifies(h.token, clock)
                THEN Reply(h, database, 401)
                ELSE IF \A t \in TokenRecords(database, h.token) : t.expiresAt < clock
                THEN Reply(h, database, 401)
                ELSE Step(h, database, [h EXCEPT !.pc = "user"])
             \* the users stay: req.user = user; next()
             [] h.pc = "user" ->
                Step(h, database,
                     [h EXCEPT !.pc = "next", !.user = h.token.userId, !.admitted = TRUE])
             [] h.pc = "next" -> FALSE

LogoutStep ==
    \E h \in handlers :
        /\ h.op = "logout" /\ h.pc = "next"
        /\ UNCHANGED <<clock, single>>
        /\ IF h.user = NoOne
           THEN Reply(h, database, 401)
           ELSE Reply(h, [database EXCEPT !.tokens = {t \in @ : t.token # h.token}], 200)

\* the handler authenticate calls as next answers
NextHandlerStep ==
    \E h \in handlers :
        /\ h.op = "authenticate" /\ h.pc = "next"
        /\ UNCHANGED <<clock, single>>
        /\ Reply(h, database, 200)

Tick ==
    /\ \E later \in {clock + 1, clock + TokenLife} :
        /\ later <= MaxClock /\ later % TokenLife <= MaxSeconds
        /\ clock' = later
    /\ UNCHANGED <<database, handlers, answered, single>>

NextAuth ==
    \/ ReceiveAuth \/ LoginStep \/ AuthenticateStep \/ LogoutStep \/ NextHandlerStep
    \/ Tick

SpecAuth == Init /\ [][NextAuth]_vars

(***************************************************************************)
(* What the properties below speak of                                      *)
(***************************************************************************)
\* the handler or method op has answered
Done(op) == phase = "done" /\ request.op = op

\* tailor or regenerate has answered with success
Succeeded(op) == Done(op) /\ response.status = 200

\* a response that carries a SimilarityMetrics
ReturnsMetrics ==
    Done("calculateSimilarity") \/ Succeeded("tailor") \/ Succeeded("regenerate")

\* the resume text calculateSimilarity was called with
ScoredText ==
    IF request.op = "calculateSimilarity" THEN request.resumeContent
    ELSE IF external.llm.fullResume # "" THEN external.llm.fullResume
    ELSE persisted.parsedContent.raw_text

\* every keyword of a request's list is, ignoring case, a substring of text
EveryKeywordIn(list, text) ==
    \A i \in 1..Len(list.items) : Includes(ToLowerCase(text), ToLowerCase(list.items[i]))

\* the missing and the matched keywords of the request are all in the
\* regenerated text
AllRequestedPresent ==
    /\ EveryKeywordIn(request.missingKeywords, response.fullDocument)
    /\ EveryKeywordIn(request.matchedKeywords, response.fullDocument)

\* a score from 0 to 100
InRange(x) == x.k = "num" /\ x.v >= 0 /\ x.v <= 1000

\* the analysis ran on the model's reply: the call returned and the content,
\* '{}' when there was none, parsed to an object
OnReply ==
    external.ats.constructed /\ external.ats.reply.kind \in {"object", "no_content"}

(***************************************************************************)
(* C1                                                                      *)
(***************************************************************************)
\* C1 as stated: after a regenerate request the returned and persisted
\* similarityScore is 100 only if every requested missing keyword and every
\* requested matched keyword is in the regenerated text, whatever score
\* calculateSimilarity computed.
C1_HundredOnlyIfAllPresent ==
    Succeeded("regenerate") =>
        /\ persisted.similarityMetrics = response.similarityMetrics
        /\ response.similarityMetrics.similarityScore = Num(100) => AllRequestedPresent

\* C1 amended: after a regenerate request the returned and persisted
\* similarityScore is 100 only if every requested missing and matched keyword
\* is in the regenerated text, or calculateSimilarity itself computed 100.
C1_HundredOnlyIfPresentOrComputed ==
    Succeeded("regenerate") =>
        /\ persisted.similarityMetrics = response.similarityMetrics
        /\ response.similarityMetrics.similarityScore = Num(100) =>
              \/ AllRequestedPresent
              \/ computed.similarityMetrics.similarityScore = Num(100)

\* a regeneration that added the missing keyword, kept the matched one and
\* raised a computed score below 100 to 100
C1_Witness ==
    /\ Succeeded("regenerate")
    /\ NonEmpty(request.missingKeywords) /\ NonEmpty(request.matchedKeywords)
    /\ AllRequestedPresent
    /\ computed.similarityMetrics.similarityScore # Num(100)
    /\ response.similarityMetrics.similarityScore = Num(100)
    /\ persisted.similarityMetrics.similarityScore = Num(100)

(***************************************************************************)
(* C2                                                                      *)
(***************************************************************************)
\* similarityScore and keywordCoverage are set to 100 and missingKeywords cleared
Overridden ==
    /\ response.similarityMetrics.similarityScore = Num(100)
    /\ response.similarityMetrics.keywordCoverage = Num(100)
    /\ response.similarityMetrics.missingKeywords = <<>>

\* C2 as stated: regenerate overrides similarityScore and keywordCoverage to
\* 100 if all requested missing and matched keywords are in the regenerated
\* text, and otherwise leaves what calculateSimilarity computed, for every
\* combination of absent, empty and non-empty lists.
C2_OverrideIffAllPresent ==
    Succeeded("regenerate") =>
        IF AllRequestedPresent THEN Overridden
        ELSE response.similarityMetrics = computed.similarityMetrics

\* the lists of the request allow the override: no missing keyword was
\* requested, or matched keywords were listed as well
ListsAllowOverride ==
    Len(request.missingKeywords.items) = 0 \/ Len(request.matchedKeywords.items) > 0

\* C2 amended: regenerate overrides similarityScore and keywordCoverage to 100
\* if and only if all requested missing and matched keywords are in the
\* regenerated text and the request lists no missing keyword or lists at least
\* one matched keyword; otherwise what calculateSimilarity computed is returned.
C2_OverrideIffPresentAndListed ==
    Succeeded("regenerate") =>
        IF AllRequestedPresent /\ ListsAllowOverride THEN Overridden
        ELSE response.similarityMetrics = computed.similarityMetrics

\* a missing keyword was requested and added, no matched keyword was listed,
\* and the computed score, below 100, is returned
C2_Witness ==
    /\ Succeeded("regenerate")
    /\ NonEmpty(request.missingKeywords) /\ ~NonEmpty(request.matchedKeywords)
    /\ AllRequestedPresent
    /\ computed.similarityMetrics.similarityScore = Tenths(665)
    /\ response.similarityMetrics = computed.similarityMetrics

(***************************************************************************)
(* C3                                                                      *)
(***************************************************************************)
\* C3: every SimilarityMetrics that calculateSimilarity, tailor or regenerate
\* returns has no keyword in both matchedKeywords and missingKeywords.
C3_MatchedMissingDisjoint ==
    ReturnsMetrics =>
        SeqToSet(response.similarityMetrics.matchedKeywords)
            \cap SeqToSet(response.similarityMetrics.missingKeywords) = {}

(***************************************************************************)
(* C4                                                                      *)
(***************************************************************************)
\* C4: in every SimilarityMetrics that calculateSimilarity, tailor or
\* regenerate returns, keywordCoverage and similarityScore are from 0 to 100.
C4_ScoresInRange ==
    ReturnsMetrics =>
        /\ InRange(response.similarityMetrics.keywordCoverage)
        /\ InRange(response.similarityMetrics.similarityScore)

(***************************************************************************)
(* C5                                                                      *)
(***************************************************************************)
\* a number of JavaScript
IsScore(x) == DOMAIN x = {"k", "v"} /\ x.k \in {"num", "NaN"}

IsKeywordList(q) == DOMAIN q = 1..Len(q) /\ \A i \in 1..Len(q) : Len(q[i]) > 0

WellFormed(metrics) ==
    /\ DOMAIN metrics = {"similarityScore", "matchedKeywords", "missingKeywords",
                         "keywordCoverage", "sectionMatches"}
    /\ IsScore(metrics.similarityScore)
    /\ IsScore(metrics.keywordCoverage)
    /\ IsKeywordList(metrics.matchedKeywords)
    /\ IsKeywordList(metrics.missingKeywords)
    /\ DOMAIN metrics.sectionMatches = {"skills", "experience", "education"}
    /\ \A f \in DOMAIN metrics.sectionMatches : IsScore(metrics.sectionMatches[f])

\* C5: whatever the semantic call does (a reply, a thrown error, no content,
\* invalid JSON, a service that was not constructed), calculateSimilarity
\* returns a SimilarityMetrics with all its fields and surfaces no failure.
C5_AlwaysWellFormed ==
    Done("calculateSimilarity") =>
        /\ ~Thrown(response.similarityMetrics)
        /\ WellFormed(response.similarityMetrics)

\* calculateSimilarity answered where the semantic call failed or could not
\* be made
C5_Witness ==
    /\ Done("calculateSimilarity")
    /\ \/ ~external.ats.constructed
       \/ external.ats.reply.kind \in {"rejected", "invalid_json", "null"}
    /\ request.jobDescription = JobPython
    /\ Len(response.similarityMetrics.matchedKeywords) > 0
    /\ WellFormed(response.similarityMetrics)

(***************************************************************************)
(* C6                                                                      *)
(***************************************************************************)
\* the reply is not of the schema: invalid JSON, or an object without a
\* numeric similarityScore or keywordCoverage or without highImpactKeywords
OffSchema(reply) ==
    \/ reply.kind \in {"invalid_json", "no_content", "null"}
    \/ /\ reply.kind = "object"
       /\ \/ reply.analysis.similarityScore.t # "number"
          \/ reply.analysis.keywordCoverage.t # "number"
          \/ ~reply.analysis.highImpactKeywords.present

\* what the deterministic algorithms compute for the texts of the call
DeterministicMetrics ==
    {calculateSimilarityFallback(request.resumeContent, request.jobDescription),
     SemanticMetrics(fallbackAnalysis(request.resumeContent, request.jobDescription,
                                      request.generateFreely))}

\* C6: a reply that deviates from the schema is treated as a failure: the
\* SimilarityMetrics returned is the one the deterministic fallback computes,
\* not values defaulted from the reply.
C6_OffSchemaFallsBack ==
    (Done("calculateSimilarity") /\ external.ats.constructed
        /\ OffSchema(external.ats.reply)) =>
        response.similarityMetrics \in DeterministicMetrics

(***************************************************************************)
(* C7                                                                      *)
(***************************************************************************)
\* C7: on the AI-backed path every keyword of the matchedKeywords that
\* calculateSimilarity returns is, ignoring case, a substring of the resume
\* text it was called with.
C7_MatchedAreInResume ==
    (phase = "done" /\ OnReply /\ ~Thrown(computed.similarityMetrics)
        /\ "absent" \notin DOMAIN computed.similarityMetrics) =>
        \A i \in 1..Len(computed.similarityMetrics.matchedKeywords) :
            Includes(ToLowerCase(ScoredText),
                     ToLowerCase(computed.similarityMetrics.matchedKeywords[i]))

\* the reply lists Kubernetes as matched, the resume has no Kubernetes, and
\* Python alone is returned
C7_Witness ==
    /\ Done("calculateSimilarity")
    /\ external.ats.constructed /\ external.ats.reply.kind = "object"
    /\ external.ats.reply.analysis.highImpactKeywords.present
    /\ JsString("Kubernetes") \in SeqToSet(external.ats.reply.analysis.highImpactKeywords.matched.a)
    /\ request.resumeContent = ResumePython
    /\ response.similarityMetrics.matchedKeywords = <<"Python">>

(***************************************************************************)
(* C8                                                                      *)
(***************************************************************************)
\* Math.round(100 * matched / all), 0 without keywords
Percentage(matched, all) == IF all > 0 THEN Num(RoundRatio(100 * matched, all)) ELSE Num(0)

\* isSemanticMatch of the service that extracted the keywords
MatchesIn(service, keyword1, keyword2) ==
    IF service = "quality" THEN QS_isSemanticMatch(keyword1, keyword2)
    ELSE ATS_isSemanticMatch(keyword1, keyword2)

\* the job keywords that some resume keyword matches, ignoring case or by
\* isSemanticMatch
MatchedOfAll(jobKeywords, resumeKeywords, service) ==
    Cardinality({i \in 1..Len(jobKeywords) :
                    \E j \in 1..Len(resumeKeywords) :
                        \/ ToLowerCase(resumeKeywords[j]) = ToLowerCase(jobKeywords[i])
                        \/ MatchesIn(service, resumeKeywords[j], jobKeywords[i])})

\* the coverage of all the job keywords by the resume keywords
FullCoverage(jobKeywords, resumeKeywords, service) ==
    Percentage(MatchedOfAll(jobKeywords, resumeKeywords, service), Len(jobKeywords))

\* C8: on the deterministic path keywordCoverage is
\* round(100 * matched job keywords / job keywords) over the whole keyword
\* sets, 0 without job keywords, whatever the cut of matchedKeywords to 30 and
\* of missingKeywords to 20 entries leaves in the lists; so it is for the
\* keywords of the semantic service when its call fails.
C8_CoverageOfFullSets ==
    Done("calculateSimilarity") =>
        IF ~external.ats.constructed
        THEN response.similarityMetrics.keywordCoverage
                = FullCoverage(QS_extractHighImpactKeywords(request.jobDescription),
                               QS_extractHighImpactKeywords(request.resumeContent),
                               "quality")
        ELSE IF external.ats.reply.kind \in {"rejected", "invalid_json", "null"}
        THEN response.similarityMetrics.keywordCoverage
                = FullCoverage(ATS_extractHighImpactKeywords(request.jobDescription),
                               ATS_extractHighImpactKeywords(request.resumeContent),
                               "semantic")
        ELSE TRUE

\* all 33 job keywords are matched and 30 of them are returned
C8_Witness ==
    /\ Done("calculateSimilarity") /\ ~external.ats.constructed
    /\ request.jobDescription = AllTerms /\ request.resumeContent = AllTerms
    /\ Len(response.similarityMetrics.matchedKeywords) = MatchedLimit
    /\ response.similarityMetrics.keywordCoverage = Num(100)

(***************************************************************************)
(* C9                                                                      *)
(***************************************************************************)
\* C9 as stated: in every tailor and regenerate response
\* qualityScore.keywordMatch equals similarityMetrics.keywordCoverage.
C9_KeywordMatchIsCoverage ==
    (Succeeded("tailor") \/ Succeeded("regenerate")) =>
        response.qualityScore.keywordMatch = response.similarityMetrics.keywordCoverage

\* C9 amended: in every tailor and regenerate response qualityScore.keywordMatch
\* equals similarityMetrics.keywordCoverage rounded to the nearest integer.
C9_KeywordMatchIsRoundedCoverage ==
    (Succeeded("tailor") \/ Succeeded("regenerate")) =>
        response.qualityScore.keywordMatch
            = MathRound(response.similarityMetrics.keywordCoverage)

\* the reply gave a coverage of 66.5 and the quality score reports 67
C9_Witness ==
    /\ Succeeded("tailor")
    /\ response.similarityMetrics.keywordCoverage = Tenths(665)
    /\ response.qualityScore.keywordMatch = Num(67)

(***************************************************************************)
(* C10                                                                     *)
(***************************************************************************)
\* overall = round(truthfulness * 0.4 + completeness * 0.3 + keywordMatch * 0.3)
\* over the values the score reports
OverallIsWeighted(qualityScore) ==
    /\ IsNumber(qualityScore.truthfulness)
    /\ IsNumber(qualityScore.completeness)
    /\ IsNumber(qualityScore.keywordMatch)
    /\ qualityScore.overall
          = Tenths(10 * RoundRatio(4 * qualityScore.truthfulness.v
                                   + 3 * qualityScore.completeness.v
                                   + 3 * qualityScore.keywordMatch.v, 100))

\* C10: every QualityScore that validateContent returns, and every
\* qualityScore of a tailor or regenerate response, has
\* overall = round(truthfulness*0.4 + completeness*0.3 + keywordMatch*0.3).
C10_OverallIsWeighted ==
    (Done("validateContent") \/ Succeeded("tailor") \/ Succeeded("regenerate")) =>
        OverallIsWeighted(response.qualityScore)

(***************************************************************************)
(* C11                                                                     *)
(***************************************************************************)
\* C11: when a requested missing keyword was not added to the regenerated
\* text, or a requested matched keyword was lost from it, regenerate returns
\* and persists the similarity metrics exactly as calculateSimilarity computed
\* them, and the quality score with keywordMatch and overall at their aligned
\* (unboosted) values.
C11_UnboostedWhenKeywordAbsent ==
    (Succeeded("regenerate") /\ ~AllRequestedPresent) =>
        /\ response.similarityMetrics = computed.similarityMetrics
        /\ persisted.similarityMetrics = computed.similarityMetrics
        /\ response.qualityScore =
              AlignKeywordMatch(computed.qualityScore, computed.similarityMetrics)
        /\ persisted.qualityScore = response.qualityScore

\* a regeneration that added the missing keyword and lost the matched one,
\* and answered with the computed score, which is not the boosted one
C11_Witness ==
    /\ Succeeded("regenerate")
    /\ NonEmpty(request.missingKeywords) /\ NonEmpty(request.matchedKeywords)
    /\ EveryKeywordIn(request.missingKeywords, response.fullDocument)
    /\ ~EveryKeywordIn(request.matchedKeywords, response.fullDocument)
    /\ response.similarityMetrics = computed.similarityMetrics
    /\ response.similarityMetrics.similarityScore # Num(BoostedScore)

(***************************************************************************)
(* C12                                                                     *)
(***************************************************************************)
\* calculateSimilarity took a deterministic path: the QualityService's own
\* fallback without a semantic service, or the semantic service's
\* fallbackAnalysis when its call failed
DeterministicPath ==
    /\ Done("calculateSimilarity")
    /\ \/ ~external.ats.constructed
       \/ external.ats.reply.kind \in {"rejected", "invalid_json", "null"}

\* what the extractor of that path finds in text
ExtractedOnPath(text) ==
    IF external.ats.constructed THEN ATS_extractHighImpactKeywords(text)
    ELSE QS_extractHighImpactKeywords(text)

\* C12 as stated: for every text T the deterministic path with resume text T
\* and job description T yields keywordCoverage = 100 and no missing
\* keywords, also for a text from which no keyword is extracted.
C12_IdenticalTextsFullCoverage ==
    (DeterministicPath /\ request.resumeContent = request.jobDescription) =>
        /\ response.similarityMetrics.keywordCoverage = Num(100)
        /\ response.similarityMetrics.missingKeywords = <<>>

\* C12 amended: for every text T the deterministic path with resume text T
\* and job description T yields no missing keywords, and keywordCoverage = 100
\* when a keyword is extracted from T and 0 when none is.
C12_IdenticalTextsCoveredOrEmpty ==
    (DeterministicPath /\ request.resumeContent = request.jobDescription) =>
        /\ response.similarityMetrics.missingKeywords = <<>>
        /\ response.similarityMetrics.keywordCoverage =
              IF ExtractedOnPath(request.jobDescription) = <<>> THEN Num(0) ELSE Num(100)

\* the same text with keywords on both sides, scored by the QualityService's
\* fallback: all of them matched
C12_Witness ==
    /\ DeterministicPath /\ ~external.ats.constructed
    /\ request.resumeContent = JobPython /\ request.jobDescription = JobPython
    /\ Len(response.similarityMetrics.matchedKeywords) > 1
    /\ response.similarityMetrics.missingKeywords = <<>>
    /\ response.similarityMetrics.keywordCoverage = Num(100)

(***************************************************************************)
(* C13                                                                     *)
(***************************************************************************)
\* the calls of isSemanticMatch that have returned
MatchCalls == {i \in 1..Len(calls) : calls[i].method = "isSemanticMatch"}

\* C13: both matchers are symmetric: isSemanticMatch(a, b) returns what
\* isSemanticMatch(b, a) returns, in the substring / shared-word matcher of
\* the SemanticATSService and in the synonym-table matcher of the
\* QualityService.
C13_MatchIsSymmetric ==
    \A i \in MatchCalls :
        calls[i].returned = MatchesIn(calls[i].service, calls[i].args[2], calls[i].args[1])

\* a match by containment, where the first keyword is the shorter one
C13_Witness ==
    \E i \in MatchCalls :
        /\ calls[i].service = "semantic"
        /\ calls[i].args = <<"Java", "JavaScript">>
        /\ calls[i].returned

(***************************************************************************)
(* C15                                                                     *)
(***************************************************************************)
\* C15: on an empty resume text or an empty job description the scoring
\* engine does not throw and returns zero and empty results:
\* extractHighImpactKeywords("") is empty, and the deterministic similarity
\* computation returns no matched and no missing keywords, keywordCoverage = 0
\* and similarityScore = 0.
C15_EmptyTextScoresZero ==
    (DeterministicPath /\ (request.resumeContent = "" \/ request.jobDescription = "")) =>
        /\ ExtractedOnPath("") = <<>>
        /\ ~Thrown(response.similarityMetrics)
        /\ response.similarityMetrics.matchedKeywords = <<>>
        /\ response.similarityMetrics.missingKeywords = <<>>
        /\ response.similarityMetrics.keywordCoverage = Num(0)
        /\ response.similarityMetrics.similarityScore = Num(0)

(***************************************************************************)
(* C18                                                                     *)
(***************************************************************************)
\* round(min(100, coverage * 0.7 + skills * 0.15 + experience * 0.10
\* + education * 0.05)) for the coverage 100 * matched / all, 0 when all = 0
WeightedSimilarity(matched, all, sectionMatches) ==
    LET sections == 15 * (sectionMatches.skills.v \div 10)
                    + 10 * (sectionMatches.experience.v \div 10)
                    + 5 * (sectionMatches.education.v \div 10)
    IN  IF all > 0 THEN Num(RoundMin100(7000 * matched + sections * all, 100 * all))
        ELSE Num(RoundMin100(sections, 100))

\* C18: on every path taken when the external call is unavailable or fails,
\* the deterministic scorer reports similarityScore = round(min(100,
\* keywordCoverage * 0.7 + skills * 0.15 + experience * 0.10
\* + education * 0.05)), with the unrounded coverage and the section
\* sub-scores it reports.
C18_ScoreIsWeightedSum ==
    DeterministicPath =>
        response.similarityMetrics.similarityScore =
            WeightedSimilarity(
                MatchedOfAll(ExtractedOnPath(request.jobDescription),
                             ExtractedOnPath(request.resumeContent),
                             IF external.ats.constructed THEN "semantic" ELSE "quality"),
                Len(ExtractedOnPath(request.jobDescription)),
                response.similarityMetrics.sectionMatches)

(***************************************************************************)
(* C19                                                                     *)
(***************************************************************************)
\* regenerate answered and the override applied to its scores
OverrideApplied ==
    /\ Succeeded("regenerate")
    /\ ShouldBoost(request.missingKeywords, request.matchedKeywords,
                   ToLowerCase(response.fullDocument))

\* the keywords of the request's list that are, ignoring case, in text
FoundIn(list, text) ==
    {list.items[i] : i \in {j \in 1..Len(list.items) :
                               Includes(ToLowerCase(text), ToLowerCase(list.items[j]))}}

\* no keyword twice
DuplicateFree(q) == \A i \in 1..Len(q), j \in 1..Len(q) : q[i] = q[j] => i = j

\* C19: when the override applies, missingKeywords is empty and
\* matchedKeywords is the duplicate-free union of the request's
\* matchedKeywords, the request's missingKeywords found in the regenerated
\* text, and the matchedKeywords that calculateSimilarity freshly computed.
C19_OverrideMergesMatched ==
    OverrideApplied =>
        /\ response.similarityMetrics.missingKeywords = <<>>
        /\ DuplicateFree(response.similarityMetrics.matchedKeywords)
        /\ SeqToSet(response.similarityMetrics.matchedKeywords)
              = SeqToSet(request.matchedKeywords.items)
                \cup FoundIn(request.missingKeywords, response.fullDocument)
                \cup SeqToSet(computed.similarityMetrics.matchedKeywords)
        /\ persisted.similarityMetrics.matchedKeywords
              = response.similarityMetrics.matchedKeywords

\* an override that merges a requested matched keyword, an added missing
\* keyword and a freshly matched keyword, one of them named twice
C19_Witness ==
    /\ OverrideApplied
    /\ request.matchedKeywords.items = <<"Kubernetes">>
    /\ request.missingKeywords.items = <<"Python">>
    /\ "Python" \in SeqToSet(computed.similarityMetrics.matchedKeywords)
    /\ "Kubernetes" \notin SeqToSet(computed.similarityMetrics.matchedKeywords)
    /\ Len(computed.similarityMetrics.matchedKeywords) > 1
    /\ Len(response.similarityMetrics.matchedKeywords)
          = Len(computed.similarityMetrics.matchedKeywords) + 1

(***************************************************************************)
(* C20                                                                     *)
(***************************************************************************)
\* the four rules on the lower-cased keywords: equal; one contains the other
\* and the shorter has at least 4 characters; a shared word of at least 4
\* characters; the two elements of a synonym pair, in either direction
MatchByRules(a, b) ==
    \/ a = b
    \/ /\ Includes(a, b) \/ Includes(b, a)
       /\ Len(a) >= 4 /\ Len(b) >= 4
    \/ WordsOfLength(SplitWhitespace(a), 4) \cap WordsOfLength(SplitWhitespace(b), 4) # {}
    \/ \E pair \in semanticPairs :
          \/ Includes(a, pair[1]) /\ Includes(b, pair[2])
          \/ Includes(a, pair[2]) /\ Includes(b, pair[1])

\* C20: isSemanticMatch(a, b) is true exactly when a and b are equal ignoring
\* case, or one contains the other and the shorter has at least 4 characters,
\* or they share a whitespace-delimited word of at least 4 characters, or
\* they contain the two elements of a pair of the synonym table, in either
\* direction; otherwise it is false.
C20_MatchIsTheFourRules ==
    \A i \in MatchCalls :
        calls[i].returned
            = MatchByRules(ToLowerCase(calls[i].args[1]), ToLowerCase(calls[i].args[2]))

ProtectedOperations ==
    {"upload", "tailor", "regenerate", "download", "updateTailoredContent",
     "setDefaultResume", "updateResumeName", "deleteResume", "promoteVersionToMain",
     "deleteResumeVersion"}

\* C17: every protected resume operation invoked without an authenticated
\* user answers with an error response and performs no database write and no
\* external call.
C17_UnauthenticatedIsRefused ==
    (phase # "idle" /\ request.op \in ProtectedOperations /\ ~request.authenticated) =>
        /\ phase = "done"
        /\ response.status >= 400
        /\ persisted = StoredResume
        /\ external = NotCalled

\* a request to delete the user's resume, without a user: refused with 401
C17_Witness ==
    /\ Done("deleteResume")
    /\ request.resumeId = persisted.resumeId
    /\ ~request.authenticated
    /\ response.status = 401
    /\ ~persisted.deleted
    /\ external = NotCalled

(***************************************************************************)
(* C21: the missing-keyword flag and warning of validateContent            *)
(***************************************************************************)
\* the job keywords that no keyword of the tailored text matches and that the
\* filter of the critical ones keeps
CriticalAbsent(jobKeywords, tailoredKeywords) ==
    {i \in 1..Len(jobKeywords) :
        /\ \A j \in 1..Len(tailoredKeywords) :
              /\ ToLowerCase(tailoredKeywords[j]) # ToLowerCase(jobKeywords[i])
              /\ ~QS_isSemanticMatch(tailoredKeywords[j], jobKeywords[i])
        /\ IsCritical(jobKeywords[i])}

WarnedOf(qualityScore, kinds) ==
    \E i \in 1..Len(qualityScore.warnings) : qualityScore.warnings[i].kind \in kinds

\* C21: validateContent sets flags.hasMissingKeywords, and gives the warning
\* of the missing keywords, exactly when the mode is strict, its keywordMatch
\* is below 80 and more than 2 critical job keywords are absent from the
\* tailored text; otherwise the flag is false and the warning is not given.
C21_MissingKeywordsFlag ==
    Done("validateContent") =>
        /\ response.qualityScore.flags.hasMissingKeywords
              = (/\ ~request.generateFreely
                 /\ response.qualityScore.keywordMatch.v < 800
                 /\ Cardinality(CriticalAbsent(
                        QS_extractHighImpactKeywords(request.jobDescription),
                        QS_extractHighImpactKeywords(request.resumeContent))) > 2)
        /\ WarnedOf(response.qualityScore, {"missing keywords"})
              = response.qualityScore.flags.hasMissingKeywords

C21_Witness ==
    /\ Done("validateContent")
    /\ response.qualityScore.flags.hasMissingKeywords
    /\ WarnedOf(response.qualityScore, {"missing keywords"})

(***************************************************************************)
(* C22: the completeness score                                             *)
(***************************************************************************)
\* the section words that the text holds in no case
SectionsAbsent(text) ==
    {section \in requiredSections :
        \A i \in 1..(Len(text) - Len(section) + 1) :
            ToLowerCase(SubSeq(text, i, i + Len(section) - 1)) # section}

\* C22: the completeness validateContent returns is 100 less 20 for each of
\* the words experience, skills and education that the tailored text holds
\* in no case, less 10 if the text has fewer than 500 characters; it is
\* between 30 and 100, and flags.hasIncompleteSections is true exactly when
\* it is below 100.
C22_CompletenessScore ==
    Done("validateContent") =>
        /\ response.qualityScore.completeness
              = Num(100 - 20 * Cardinality(SectionsAbsent(request.resumeContent))
                        - (IF Len(request.resumeContent) < 500 THEN 10 ELSE 0))
        /\ response.qualityScore.completeness.v \in 300..1000
        /\ response.qualityScore.flags.hasIncompleteSections
              = (response.qualityScore.completeness.v < 1000)

\* a text that is long enough and has the three sections has been scored
C22_Witness ==
    /\ Done("validateContent")
    /\ request.resumeContent = ResumeLong
    /\ response.qualityScore.completeness = Num(100)
    /\ ~response.qualityScore.flags.hasIncompleteSections

(***************************************************************************)
(* C23: the hallucination check is made in strict mode only                *)
(***************************************************************************)
\* C23: with generateFreely = true validateContent leaves
\* flags.hasHallucination false and gives neither the warning of new
\* companies nor the warning of new job titles.
C23_FlexibleSkipsHallucination ==
    (Done("validateContent") /\ request.generateFreely) =>
        /\ ~response.qualityScore.flags.hasHallucination
        /\ ~WarnedOf(response.qualityScore, {"new companies", "new job titles"})

\* a tailored text that names a company and a title the original resume has
\* not was validated in flexible mode
C23_Witness ==
    /\ Done("validateContent")
    /\ request.generateFreely
    /\ checkHallucination(request.originalResume, request.resumeContent) # <<>>
    /\ ~response.qualityScore.flags.hasHallucination

(***************************************************************************)
(* C25: the missing-keyword flag and the keywordMatch reported             *)
(***************************************************************************)
\* C25: in every tailor and regenerate response whose
\* qualityScore.flags.hasMissingKeywords is true the mode is strict and the
\* qualityScore.keywordMatch reported is below 80, also after the alignment
\* with keywordCoverage and after the boost to 100.
C25_FlagMeansLowKeywordMatch ==
    ((Succeeded("tailor") \/ Succeeded("regenerate"))
        /\ response.qualityScore.flags.hasMissingKeywords) =>
        /\ ~request.generateFreely
        /\ IsNumber(response.qualityScore.keywordMatch)
        /\ response.qualityScore.keywordMatch.v < 800

(***************************************************************************)
(* C24: the length a keyword of the SemanticATSService must have           *)
(***************************************************************************)
\* the calls of extractHighImpactKeywords that have returned
ExtractCalls == {i \in 1..Len(calls) : calls[i].method = "extractHighImpactKeywords"}

\* a run of two or more upper-case letters
IsAcronym(word) == Len(word) >= 2 /\ AllChars(word, 1, Len(word), "upper")

\* the acronyms of text, as they stand in it, that match no noise pattern
PlainAcronyms(text) ==
    {acronym \in SeqToSet(Runs(text, "acronym")) :
        IsAcronym(acronym) /\ ~NoisePattern(ToLowerCase(acronym))}

\* every keyword returned has 3 characters or more, or is an acronym
C24_ReturnedAreLongEnough ==
    \A i \in ExtractCalls :
        \A k \in 1..Len(calls[i].returned) :
            Len(calls[i].returned[k]) >= 3 \/ IsAcronym(calls[i].returned[k])

\* C24: a candidate is discarded for its length exactly when it has fewer
\* than 3 characters, or fewer than 2 if it is an acronym: every keyword
\* returned has 3 characters or more or is an acronym of 2 or more, and an
\* acronym of two letters that is no noise is returned in its original case.
C24_TwoLetterAcronymsKept ==
    /\ C24_ReturnedAreLongEnough
    /\ \A i \in ExtractCalls :
          \A acronym \in PlainAcronyms(calls[i].args[1]) :
              \E k \in 1..Len(calls[i].returned) : calls[i].returned[k] = acronym

\* every request received so far, answered or in flight
Requests == {answered[i] : i \in 1..Len(answered)} \cup handlers

\* the requests ran one after another: none was received while another ran
OneAfterAnother ==
    /\ Cardinality(handlers) <= 1
    /\ \A i \in 1..Len(answered) : answered[i].started = i - 1
    /\ \A h \in handlers : h.started = Len(answered)

DefaultsOf(db, user) == {r \in ResumesOf(db, user) : r.isDefault}

\* C26: after any sequence of upload, setDefaultResume and deleteResume
\* requests of one user, at most one of the user's resumes is the default.
C26_AtMostOneDefault ==
    (/\ OneAfterAnother
     /\ \A q \in Requests : q.op \in {"upload", "setDefaultResume", "deleteResume"}
     /\ \A q, o \in Requests : q.user = o.user)
    => \A user \in Users : Cardinality(DefaultsOf(database, user)) <= 1

\* C27: deleteResume requests, concurrent ones of one user included, leave
\* every user who had a resume with at least one.
C27_NeverRemovesTheOnlyResume ==
    (\A q \in Requests : q.op = "deleteResume")
    => \A user \in Users :
          ResumesOf(InitialDatabase, user) # {} => ResumesOf(database, user) # {}

CurrentOf(db, resumeId) == {v \in db.versions : v.resumeId = resumeId /\ v.isCurrent}

\* C28: at most one version of a resume is the current one, whatever the
\* interleaving of updateTailoredContent and promoteVersionToMain requests;
\* download leaves the current versions as they are.
C28_AtMostOneCurrent ==
    (\A q \in Requests :
        q.op \in {"updateTailoredContent", "promoteVersionToMain", "download"})
    => \A r \in database.resumes : Cardinality(CurrentOf(database, r.id)) <= 1

\* the user who owns the resume or the version a request names, or NoOne
OwnerAsked(q) ==
    IF q.resumeId # 0
    THEN IF \E r \in InitialDatabase.resumes : r.id = q.resumeId
         THEN (CHOOSE r \in InitialDatabase.resumes : r.id = q.resumeId).userId
         ELSE NoOne
    ELSE IF \E v \in InitialDatabase.versions : v.id = q.versionId
    THEN (CHOOSE r \in InitialDatabase.resumes :
             \E v \in InitialDatabase.versions :
                 v.id = q.versionId /\ v.resumeId = r.id).userId
    ELSE NoOne

\* the request of a user names a record of another user
AsksAnothers(q) == q.user # NoOne /\ OwnerAsked(q) \notin {NoOne, q.user}

\* the resumes and the versions of a user
RecordsOf(db, user) ==
    <<ResumesOf(db, user),
      {v \in db.versions : \E r \in ResumesOf(db, user) : r.id = v.resumeId}>>

\* C30 as stated: a request for a record of another user is answered 404,
\* and leaves the records of the other user as they are.
C30_AnothersIsNotFound ==
    \A i \in 1..Len(answered) : AsksAnothers(answered[i]) => answered[i].status = 404

\* C30: a request for a record of another user is answered 404, or 422 by
\* a handler that refuses its body before it looks the record up; and the
\* records of a user are as they were while every request is of another.
C30_AnothersIsRefused ==
    /\ \A i \in 1..Len(answered) :
          AsksAnothers(answered[i]) =>
              \/ answered[i].status = 404
              \/ /\ answered[i].status = 422
                 /\ answered[i].op \in {"tailor", "regenerate", "updateResumeName",
                                        "correctParsedContent"}
                 /\ answered[i].body = "invalid"
    /\ \A user \in Users :
          (\A q \in Requests : q.user # user) =>
              RecordsOf(database, user) = RecordsOf(InitialDatabase, user)

C30_Witness ==
    /\ Len(answered) = MaxRequests
    /\ \A i \in 1..Len(answered) : AsksAnothers(answered[i])
    /\ \E i, j \in 1..Len(answered) :
          /\ answered[i].status = 404 /\ answered[i].op = "deleteResume"
          /\ answered[j].status = 422

\* C29: once logout has answered for a token, every authenticate call
\* received later with that token is answered 401 and is not admitted.
C29_LoggedOutIsRejected ==
    \A i, j \in 1..Len(answered) :
        (/\ answered[i].op = "logout" /\ answered[i].status = 200
         /\ answered[j].op \in {"authenticate", "logout"}
         /\ answered[j].token = answered[i].token
         /\ answered[j].started >= i)
        => answered[j].status = 401 /\ ~answered[j].admitted

====
